---- MODULE Spec2Model ----
(***************************************************************************)
(* Order book engine of OrderFlow-Trading.                                 *)
(*                                                                         *)
(* The objects are modelled each under its own specification:              *)
(*   SpecTree  the OrderBookBTreeMap of rust/btreemap-core (u128 price     *)
(*             keys, whole-level insert with the merge rule, set, delete,  *)
(*             clear, and the best-bid / best-ask queries);                *)
(*   SpecBook  the OrderBook of rust/orderbook (Decimal price keys, the    *)
(*             update_depth ingest with tick normalisation, clear, and the *)
(*             BBO / spread / mid / band-sum / depth-metrics queries);     *)
(*   SpecDepth the same book under a caller that keeps the update it       *)
(*             passed and the book as the call found it, for updates of    *)
(*             several entries;                                            *)
(*   SpecClock the observed book with a running clock and the supervisor   *)
(*             that opens the circuit;                                     *)
(*   SpecHealth the book as get_health sees it, the clock read at the      *)
(*             instants where an age meets a threshold;                    *)
(*   SpecCircuit the circuit breaker over update_depth, clear() and       *)
(*             get_health, with the clock and the supervisor;              *)
(*   SpecFill  the book filled from empty past config.max_levels;          *)
(*   SpecRegistry the host module of the tree: TREE_REGISTRY, its mutex,   *)
(*             the mutex of each tree, and the threads that call in;       *)
(*   SpecHostBook the host module of the book: ORDER_BOOK_REGISTRY, its    *)
(*             mutex, and threads that update and read one book, the       *)
(*             update followed entry by entry;                             *)
(*   SpecMath  the fixed-point kernel and the statistics, called with two  *)
(*             u128 values in a build with or without overflow checks;     *)
(*   SpecSqrt  integer_sqrt followed iteration by iteration;               *)
(*   SpecConversions the conversions from f64 to fixed point.              *)
(*                                                                         *)
(* Prices and quantities are whole numbers of the model's unit, for which  *)
(* the f64 <-> Decimal conversions of the queries are exact.  Quantities   *)
(* are non-negative, as the data model of the book requires.  A level's    *)
(* timestamp is kept for the OrderBook; the consumed_* / added_*           *)
(* diagnostics are written by the code but read by no operation and are    *)
(* left out of the level records.                                          *)
(***************************************************************************)
EXTENDS Integers, Sequences, FiniteSets, TLC

VARIABLES
    tree,        \* OrderBookBTreeMap.tree : price key -> PassiveLevel
    treeCall,    \* the last call made on the tree, with its arguments
    levels,      \* OrderBook.levels : normalized price -> PassiveLevel
    config,      \* OrderBook.config (tick_size, max_error_rate, ...)
    last_update, \* OrderBook.last_update
    error_count, \* OrderBook.error_count
    circuit_open,        \* OrderBook.circuit_open
    circuit_open_until,  \* OrderBook.circuit_open_until (None or a time)
    now,         \* the wall clock read by Utc::now()
    bookCall,    \* the last call made on the book, with its result
    depthCall,   \* an update_depth call whose result the caller still holds
    registry,      \* TREE_REGISTRY : id -> the tree registered under it
    registry_lock, \* the thread that holds the mutex of TREE_REGISTRY, if any
    tree_lock,     \* id -> the thread that holds the mutex of that tree, if any
    pc,            \* thread -> the host call it is in and where it stands
    mathArgs,      \* the arguments a caller of the financial-math kernel holds
    mathCall       \* the last call made on the kernel, with its result

vars == <<tree, treeCall, levels, config, last_update, error_count,
          circuit_open, circuit_open_until, now, bookCall, depthCall,
          registry, registry_lock, tree_lock, pc, mathArgs, mathCall>>

treeVars == <<tree, treeCall>>
bookVars == <<levels, config, last_update, error_count,
              circuit_open, circuit_open_until, now, bookCall>>

\* what a call on the tree, respectively on the book, cannot touch
regVars == <<registry, registry_lock, tree_lock, pc>>
mathVars == <<mathArgs, mathCall>>
treeFrame == <<bookVars, depthCall, regVars, mathVars>>
bookFrame == <<treeVars, regVars, mathVars>>
regFrame == <<treeVars, bookVars, depthCall, mathVars>>
mathFrame == <<treeVars, bookVars, depthCall, regVars>>

(***************************************************************************)
(* Bounds of the model.                                                    *)
(***************************************************************************)
MaxPrice == 4      \* f64 prices handed to the tree: 0..MaxPrice model units
PriceSub == 2      \* model price units per u128 key unit (1e-8)
MaxQty == 1        \* quantities handed to the tree: 0..MaxQty
MaxRawPrice == 2   \* price literals of a depth update: 0..MaxRawPrice
MaxBookQty == 1    \* quantity literals of a depth update: 0..MaxBookQty
MaxEntries == 1    \* (price, quantity) pairs of one depth update, bids + asks
MaxTick == 2       \* tick sizes a book is constructed with: 1..MaxTick
DepthMaxPrice == 1   \* price literals of an observed depth update: 0..DepthMaxPrice
DepthMaxEntries == 2 \* (price, quantity) pairs of an observed depth update
MaxNow == 2          \* readings of the wall clock: 0..MaxNow
MaxBand == 1         \* band_ticks of a sum_band query: 0..MaxBand
MaxThreads == 2      \* threads that call into the host module: 1..MaxThreads
U128Bits == 16       \* bits of the u128 of the financial-math kernel
MaxSample == 6       \* u128 arguments: 0..MaxSample and the MaxSample largest
QuantityUnit == 10   \* the u128 that stands for the quantity 1.0
MaxScale == 5        \* decimal scales passed to the kernel: 0..MaxScale
F64Bits == 13        \* bits of the mantissa of the f64 of the kernel
MaxMantissa == 3     \* mantissas of the f64 arguments: 0..MaxMantissa
MaxValues == 2       \* values of a slice passed to the statistics: 0..MaxValues

\* thresholds of get_health on the age of the last update, in milliseconds
UnhealthyAgeMs == 10000
DegradedAgeMs == 5000

\* Option<T>: None, or Some(x)
None == <<>>
Some(x) == <<x>>

(***************************************************************************)
(* f64 results of the price queries: a finite value or +infinity.          *)
(***************************************************************************)
Finite(x) == [inf |-> FALSE, val |-> x]
INFINITY == [inf |-> TRUE, val |-> 0]

(***************************************************************************)
(* OrderBookBTreeMap (rust/btreemap-core/src/lib.rs)                       *)
(***************************************************************************)
TreePrices == 0..MaxPrice
TreeQuantities == 0..MaxQty
\* the side argument is a free string: anything but "bid" takes the else branch
TreeSides == {"bid", "ask", "mid"}

\* (price * 100_000_000.0) as u128 : scales and truncates toward zero
price_to_u128(price) == price \div PriceSub

\* value as f64 / 100_000_000.0
u128_to_price(value) == value * PriceSub

PassiveLevel(price, bid, ask) == [price |-> price, bid |-> bid, ask |-> ask]

\* BTreeMap::insert / BTreeMap::remove on a map held as a function
MapInsert(m, k, v) == [x \in (DOMAIN m) \cup {k} |-> IF x = k THEN v ELSE m[x]]
MapRemove(m, k) == [x \in (DOMAIN m) \ {k} |-> m[x]]
EmptyMap == [x \in {} |-> None]

\* the merge with its two branches in the other order (the bid branch last)
enforce_bid_ask_separation_bid_last(existing, incoming) ==
    LET r1 == IF incoming.ask > 0
              THEN [existing EXCEPT !.ask = incoming.ask, !.bid = 0]
              ELSE existing
        r2 == IF incoming.bid > 0
              THEN [r1 EXCEPT !.bid = incoming.bid, !.ask = 0]
              ELSE r1
    IN r2

enforce_bid_ask_separation(existing, incoming) ==
    LET r1 == IF incoming.bid > 0
              THEN [existing EXCEPT !.bid = incoming.bid, !.ask = 0]
              ELSE existing
        r2 == IF incoming.ask > 0
              THEN [r1 EXCEPT !.ask = incoming.ask, !.bid = 0]
              ELSE r1
    IN r2

\* the tree after insert(price, level)
insert_result(t, price, level) ==
    LET price_key == price_to_u128(price)
    IN IF price_key \in DOMAIN t
       THEN MapInsert(t, price_key, enforce_bid_ask_separation(t[price_key], level))
       ELSE MapInsert(t, price_key, level)

\* set without the clearing of the conflicting side
set_result_keeps_other_side(t, price, side, quantity) ==
    LET price_key == price_to_u128(price)
    IN IF price_key \in DOMAIN t
       THEN MapInsert(t, price_key,
                IF side = "bid" THEN [t[price_key] EXCEPT !.bid = quantity]
                ELSE [t[price_key] EXCEPT !.ask = quantity])
       ELSE MapInsert(t, price_key,
                PassiveLevel(price,
                             IF side = "bid" THEN quantity ELSE 0,
                             IF side = "ask" THEN quantity ELSE 0))

\* the tree after set(price, side, quantity)
set_result(t, price, side, quantity) ==
    LET price_key == price_to_u128(price)
    IN IF price_key \in DOMAIN t
       THEN LET existing == t[price_key]
                updated ==
                    IF side = "bid"
                    THEN [existing EXCEPT
                            !.bid = quantity,
                            !.ask = IF quantity > 0 THEN 0 ELSE @]
                    ELSE [existing EXCEPT
                            !.ask = quantity,
                            !.bid = IF quantity > 0 THEN 0 ELSE @]
            IN MapInsert(t, price_key, updated)
       ELSE MapInsert(t, price_key,
                PassiveLevel(price,
                             IF side = "bid" THEN quantity ELSE 0,
                             IF side = "ask" THEN quantity ELSE 0))

\* get(price): the stored level, or None
BTreeMap_get(price) ==
    IF price_to_u128(price) \in DOMAIN tree
    THEN Some(tree[price_to_u128(price)]) ELSE None

\* the record of a call: its arguments (price; side and quantity of a set; bid
\* and ask of an inserted level) and what get(price) returned before it
TreeCall(op, price, side, quantity, bid, ask, before) ==
    [op |-> op, price |-> price, side |-> side, quantity |-> quantity,
     bid |-> bid, ask |-> ask, before |-> before]

BTreeMap_insert(price, level) ==
    /\ tree' = insert_result(tree, price, level)
    /\ treeCall' = TreeCall("insert", price, "", 0, level.bid, level.ask,
                             BTreeMap_get(price))
    /\ UNCHANGED treeFrame

BTreeMap_set(price, side, quantity) ==
    /\ tree' = set_result(tree, price, side, quantity)
    /\ treeCall' = TreeCall("set", price, side, quantity, 0, 0, BTreeMap_get(price))
    /\ UNCHANGED treeFrame

BTreeMap_delete(price) ==
    /\ tree' = MapRemove(tree, price_to_u128(price))
    /\ treeCall' = TreeCall("delete", price, "", 0, 0, 0, BTreeMap_get(price))
    /\ UNCHANGED treeFrame

BTreeMap_clear ==
    /\ tree' = EmptyMap
    /\ treeCall' = TreeCall("clear", 0, "", 0, 0, 0, None)
    /\ UNCHANGED treeFrame

BTreeMap_size == Cardinality(DOMAIN tree)

SetMax(S) == CHOOSE x \in S : \A y \in S : y <= x
SetMin(S) == CHOOSE x \in S : \A y \in S : x <= y

\* the keys of a map in ascending order (iter()) and descending order (iter().rev())
RECURSIVE Ascending(_)
Ascending(S) ==
    IF S = {} THEN <<>> ELSE <<SetMin(S)>> \o Ascending(S \ {SetMin(S)})

RECURSIVE Descending(_)
Descending(S) ==
    IF S = {} THEN <<>> ELSE <<SetMax(S)>> \o Descending(S \ {SetMax(S)})

\* Iterator::find(|(_, level)| level.<side> > 0.0): the first such key, if any
RECURSIVE find_positive(_, _, _)
find_positive(m, keys, side) ==
    IF keys = <<>> THEN None
    ELSE IF m[Head(keys)][side] > 0 THEN Some(Head(keys))
    ELSE find_positive(m, Tail(keys), side)

\* iter().rev().find(bid > 0).map(u128_to_price).unwrap_or(0.0)
BTreeMap_get_best_bid ==
    LET found == find_positive(tree, Descending(DOMAIN tree), "bid")
    IN IF found = None THEN 0 ELSE u128_to_price(found[1])

\* iter().find(ask > 0).map(u128_to_price).unwrap_or(INFINITY)
BTreeMap_get_best_ask ==
    LET found == find_positive(tree, Ascending(DOMAIN tree), "ask")
    IN IF found = None THEN INFINITY ELSE Finite(u128_to_price(found[1]))

\* the loop of get_best_bid_ask over the keys still to visit
RECURSIVE best_bid_ask_loop(_, _, _)
best_bid_ask_loop(keys, best_bid, best_ask) ==
    IF keys = <<>> THEN <<best_bid, best_ask>>
    ELSE LET price == Head(keys)
             level == tree[price]
             bb == IF level.bid > 0 /\ best_bid = 0
                   THEN u128_to_price(price) ELSE best_bid
             ba == IF level.ask > 0 /\ best_ask = INFINITY
                   THEN Finite(u128_to_price(price)) ELSE best_ask
         IN IF bb > 0 /\ ba # INFINITY
            THEN <<bb, ba>>
            ELSE best_bid_ask_loop(Tail(keys), bb, ba)

BTreeMap_get_best_bid_ask ==
    best_bid_ask_loop(Descending(DOMAIN tree), 0, INFINITY)

InitTree ==
    /\ tree = EmptyMap
    /\ treeCall = TreeCall("new", 0, "", 0, 0, 0, None)

NextTree ==
    \/ \E price \in TreePrices, bid \in TreeQuantities, ask \in TreeQuantities :
          BTreeMap_insert(price, PassiveLevel(price, bid, ask))
    \/ \E price \in TreePrices, side \in TreeSides, quantity \in TreeQuantities :
          BTreeMap_set(price, side, quantity)
    \/ \E price \in TreePrices : BTreeMap_delete(price)
    \/ BTreeMap_clear

(***************************************************************************)
(* The host module of the tree (rust/btreemap/src/lib.rs, and the same     *)
(* functions in rust/btreemap-bindings): TREE_REGISTRY behind its mutex,   *)
(* each registered tree behind its own.  A thread takes one step at a      *)
(* time: it asks for a mutex, gets it when it is free, works, and returns. *)
(***************************************************************************)
HostThreads == 1..MaxThreads
HostIds == {"a", "b"}
HostOps == {"create_tree", "insert", "set", "delete"}

Idle == [at |-> "idle", op |-> "", id |-> ""]
At(thread, at) == [pc EXCEPT ![thread].at = at]

\* a host function is entered; its arguments are read before any lock is taken
Host_call(thread, op, id) ==
    /\ pc[thread].at = "idle"
    /\ pc' = [pc EXCEPT ![thread] = [at |-> "registry_lock", op |-> op, id |-> id]]
    /\ UNCHANGED <<registry, registry_lock, tree_lock>>
    /\ UNCHANGED regFrame

\* a lock() that returns whether or not another thread holds the mutex
Registry_lock_not_exclusive(thread) ==
    /\ pc[thread].at = "registry_lock"
    /\ registry_lock' = Some(thread)
    /\ pc' = At(thread, "registry_held")
    /\ UNCHANGED <<registry, tree_lock>>
    /\ UNCHANGED regFrame

\* TREE_REGISTRY.lock().unwrap() returns once the mutex is free
Registry_lock(thread) ==
    /\ pc[thread].at = "registry_lock"
    /\ registry_lock = None
    /\ registry_lock' = Some(thread)
    /\ pc' = At(thread, "registry_held")
    /\ UNCHANGED <<registry, tree_lock>>
    /\ UNCHANGED regFrame

\* HashMap::insert returns the value the key held before, if any; create_tree
\* drops it
Replaced(id) == IF id \in DOMAIN registry THEN Some(registry[id]) ELSE None

\* create_tree that leaves a tree already registered under the id in place
Host_create_tree_keeps_existing(thread) ==
    /\ pc[thread].at = "registry_held"
    /\ pc[thread].op = "create_tree"
    /\ registry' = IF pc[thread].id \in DOMAIN registry THEN registry
                   ELSE MapInsert(registry, pc[thread].id, EmptyMap)
    /\ pc' = [pc EXCEPT ![thread] =
                [at |-> "return", op |-> "create_tree", id |-> pc[thread].id,
                 replaced |-> Replaced(pc[thread].id)]]
    /\ UNCHANGED <<registry_lock, tree_lock>>
    /\ UNCHANGED regFrame

\* create_tree: registry.insert(id, OrderBookBTreeMap::new())
Host_create_tree(thread) ==
    /\ pc[thread].at = "registry_held"
    /\ pc[thread].op = "create_tree"
    /\ registry' = MapInsert(registry, pc[thread].id, EmptyMap)
    /\ pc' = [pc EXCEPT ![thread] =
                [at |-> "return", op |-> "create_tree", id |-> pc[thread].id,
                 replaced |-> Replaced(pc[thread].id)]]
    /\ UNCHANGED <<registry_lock, tree_lock>>
    /\ UNCHANGED regFrame

\* insert / set / delete: registry.get_mut(&id), then the call on the tree or
\* the "Tree not found" error
Host_get_mut(thread) ==
    /\ pc[thread].at = "registry_held"
    /\ pc[thread].op # "create_tree"
    /\ pc' = At(thread, IF pc[thread].id \in DOMAIN registry
                         THEN "tree_lock" ELSE "return")
    /\ UNCHANGED <<registry, registry_lock, tree_lock>>
    /\ UNCHANGED regFrame

\* self.tree.lock().unwrap() inside the tree's insert / set / delete
Tree_lock(thread) ==
    /\ pc[thread].at = "tree_lock"
    /\ tree_lock[pc[thread].id] = None
    /\ tree_lock' = [tree_lock EXCEPT ![pc[thread].id] = Some(thread)]
    /\ pc' = At(thread, "tree_held")
    /\ UNCHANGED <<registry, registry_lock>>
    /\ UNCHANGED regFrame

\* the body of the tree's insert / set / delete, to the drop of its guard
Tree_write(thread) ==
    /\ pc[thread].at = "tree_held"
    /\ LET id == pc[thread].id
           held == registry[id]
       IN registry' = [registry EXCEPT ![id] =
              IF pc[thread].op = "insert"
              THEN insert_result(held, 0, PassiveLevel(0, 1, 0))
              ELSE IF pc[thread].op = "set"
              THEN set_result(held, 0, "ask", 1)
              ELSE MapRemove(held, price_to_u128(0))]
    /\ tree_lock' = [tree_lock EXCEPT ![pc[thread].id] = None]
    /\ pc' = At(thread, "return")
    /\ UNCHANGED registry_lock
    /\ UNCHANGED regFrame

\* a host function that returns with the guard of the registry still held
Host_return_keeps_guard(thread) ==
    /\ pc[thread].at = "return"
    /\ pc' = [pc EXCEPT ![thread] = Idle]
    /\ UNCHANGED <<registry, registry_lock, tree_lock>>
    /\ UNCHANGED regFrame

\* the host function returns or throws: the guard of the registry is dropped
Host_return(thread) ==
    /\ pc[thread].at = "return"
    /\ registry_lock' = None
    /\ pc' = [pc EXCEPT ![thread] = Idle]
    /\ UNCHANGED <<registry, tree_lock>>
    /\ UNCHANGED regFrame

InitRegistry ==
    /\ registry = EmptyMap
    /\ registry_lock = None
    /\ tree_lock = [id \in HostIds |-> None]
    /\ pc = [thread \in HostThreads |-> Idle]

NextRegistry ==
    \/ \E thread \in HostThreads, op \in HostOps, id \in HostIds :
          Host_call(thread, op, id)
    \/ \E thread \in HostThreads : Registry_lock(thread)
    \/ \E thread \in HostThreads : Host_create_tree(thread)
    \/ \E thread \in HostThreads : Host_get_mut(thread)
    \/ \E thread \in HostThreads : Tree_lock(thread)
    \/ \E thread \in HostThreads : Tree_write(thread)
    \/ \E thread \in HostThreads : Host_return(thread)

(***************************************************************************)
(* OrderBook (rust/orderbook/src/orderbook.rs, financial_math.rs)          *)
(***************************************************************************)
\* A decimal literal of a depth update: a string that parses to the number
\* num, or a string that Decimal::from_str_exact rejects.
Literal(n) == [parses |-> TRUE, num |-> n]
BadLiteral == [parses |-> FALSE, num |-> 0]
\* a second string that does not parse, different from the first
OtherBadLiteral == [parses |-> FALSE, num |-> 1]

PriceLiterals == {Literal(n) : n \in 0..MaxRawPrice}
QtyLiterals == {Literal(n) : n \in 0..MaxBookQty}
\* the pairs of an update: a bad price is never followed by a parse of its
\* quantity, and the price beside a bad quantity has parsed
Entries == (PriceLiterals \X QtyLiterals)
              \cup {<<BadLiteral, Literal(1)>>, <<Literal(1), BadLiteral>>}

SeqsUpTo(S, n) == UNION {[1..k -> S] : k \in 0..n}
DepthUpdates ==
    {u \in [bids : SeqsUpTo(Entries, MaxEntries), asks : SeqsUpTo(Entries, MaxEntries)] :
        Len(u.bids) + Len(u.asks) <= MaxEntries}

\* Decimal::round(): half-to-even rounding of the quotient num / den
round_half_even(num, den) ==
    LET q == num \div den
        r == num % den
    IN IF 2 * r > den THEN q + 1
       ELSE IF 2 * r < den THEN q
       ELSE IF q % 2 = 0 THEN q ELSE q + 1

normalize_price_to_tick(price, tick_size) ==
    IF tick_size = 0 THEN price
    ELSE round_half_even(price, tick_size) * tick_size

normalize_price(price) == normalize_price_to_tick(price, config.tick_size)

BookLevel(price, bid, ask, timestamp) ==
    [price |-> price, bid |-> bid, ask |-> ask, timestamp |-> timestamp]

\* update_level without the removal of a level whose two sides are zero
update_level_keeps_zero(lv, price, bid_qty, ask_qty, timestamp) ==
    MapInsert(lv, normalize_price(price),
              BookLevel(normalize_price(price), bid_qty, ask_qty, timestamp))

\* update_level adding the quantities to those the level holds
update_level_adds(lv, price, bid_qty, ask_qty, timestamp) ==
    LET normalized_price == normalize_price(price)
        held == IF normalized_price \in DOMAIN lv THEN lv[normalized_price]
                ELSE BookLevel(normalized_price, 0, 0, timestamp)
    IN IF bid_qty = 0 /\ ask_qty = 0
       THEN MapRemove(lv, normalized_price)
       ELSE MapInsert(lv, normalized_price,
                      BookLevel(normalized_price, held.bid + bid_qty,
                                held.ask + ask_qty, timestamp))

\* update_level refusing a new level once the book holds config.max_levels
update_level_enforces_max_levels(lv, price, bid_qty, ask_qty, timestamp) ==
    LET normalized_price == normalize_price(price)
    IN IF bid_qty = 0 /\ ask_qty = 0
       THEN MapRemove(lv, normalized_price)
       ELSE IF /\ normalized_price \notin DOMAIN lv
               /\ Cardinality(DOMAIN lv) >= config.max_levels
       THEN lv
       ELSE MapInsert(lv, normalized_price,
                      BookLevel(normalized_price, bid_qty, ask_qty, timestamp))

\* the levels after update_level(price, bid_qty, ask_qty, timestamp)
update_level(lv, price, bid_qty, ask_qty, timestamp) ==
    LET normalized_price == normalize_price(price)
    IN IF bid_qty = 0 /\ ask_qty = 0
       THEN MapRemove(lv, normalized_price)
       ELSE MapInsert(lv, normalized_price,
                      BookLevel(normalized_price, bid_qty, ask_qty, timestamp))

Ok == [ok |-> TRUE, msg |-> "", token |-> BadLiteral]
Err(msg, token) == [ok |-> FALSE, msg |-> msg, token |-> token]

\* the loops of update_depth with a zero-quantity entry removing a level only
\* when the level holds quantity on the side of the entry
RECURSIVE process_entries_own_side(_, _, _, _)
process_entries_own_side(lv, entries, side, timestamp) ==
    IF entries = <<>> THEN [levels |-> lv, result |-> Ok]
    ELSE LET price_str == Head(entries)[1]
             qty_str == Head(entries)[2]
             key == normalize_price(price_str.num)
         IN IF ~price_str.parses
            THEN [levels |-> lv, result |-> Err("Invalid price", price_str)]
            ELSE IF ~qty_str.parses
            THEN [levels |-> lv, result |-> Err("Invalid quantity", qty_str)]
            ELSE process_entries_own_side(
                    IF qty_str.num = 0 /\ key \in DOMAIN lv /\ lv[key][side] = 0
                    THEN lv
                    ELSE IF side = "bid"
                    THEN update_level(lv, price_str.num, qty_str.num, 0, timestamp)
                    ELSE update_level(lv, price_str.num, 0, qty_str.num, timestamp),
                    Tail(entries), side, timestamp)

\* one of the two loops of update_depth: the entries are parsed and applied in
\* list order; the first literal that does not parse ends the call (the ?
\* operator) with the levels as the earlier entries left them
RECURSIVE process_entries(_, _, _, _)
process_entries(lv, entries, side, timestamp) ==
    IF entries = <<>> THEN [levels |-> lv, result |-> Ok]
    ELSE LET price_str == Head(entries)[1]
             qty_str == Head(entries)[2]
         IN IF ~price_str.parses
            THEN [levels |-> lv, result |-> Err("Invalid price", price_str)]
            ELSE IF ~qty_str.parses
            THEN [levels |-> lv, result |-> Err("Invalid quantity", qty_str)]
            ELSE process_entries(
                    IF side = "bid"
                    THEN update_level(lv, price_str.num, qty_str.num, 0, timestamp)
                    ELSE update_level(lv, price_str.num, 0, qty_str.num, timestamp),
                    Tail(entries), side, timestamp)

\* update_depth undoing the entries it has applied when a later one fails
apply_update_all_or_nothing(lv, update, timestamp) ==
    LET afterBids == process_entries(lv, update.bids, "bid", timestamp)
        afterAsks == IF ~afterBids.result.ok THEN afterBids
                     ELSE process_entries(afterBids.levels, update.asks, "ask",
                                          timestamp)
    IN IF afterAsks.result.ok THEN afterAsks
       ELSE [levels |-> lv, result |-> afterAsks.result]

\* update_depth with its two loops exchanged: asks, then bids
apply_update_asks_first(lv, update, timestamp) ==
    LET afterAsks == process_entries(lv, update.asks, "ask", timestamp)
    IN IF ~afterAsks.result.ok THEN afterAsks
       ELSE process_entries(afterAsks.levels, update.bids, "bid", timestamp)

\* update_depth past the circuit-breaker check: bids, then asks, then last_update
apply_update(lv, update, timestamp) ==
    LET afterBids == process_entries(lv, update.bids, "bid", timestamp)
    IN IF ~afterBids.result.ok THEN afterBids
       ELSE process_entries(afterBids.levels, update.asks, "ask", timestamp)

\* the record of a call: its result, and whether the book held no level before it
BookCall(op, result) ==
    [op |-> op, result |-> result, was_empty |-> (DOMAIN levels = {})]

\* update_depth writing last_update whatever the outcome of the entries
update_depth_step_always_stamps(update) ==
    IF circuit_open /\ circuit_open_until # None /\ now < circuit_open_until[1]
    THEN /\ bookCall' = BookCall("update_depth", Ok)
         /\ UNCHANGED <<levels, config, last_update, error_count,
                        circuit_open, circuit_open_until, now>>
    ELSE LET expired == circuit_open /\ circuit_open_until # None
             applied == apply_update(levels, update, now)
         IN /\ circuit_open' = IF expired THEN FALSE ELSE circuit_open
            /\ circuit_open_until' = IF expired THEN None ELSE circuit_open_until
            /\ levels' = applied.levels
            /\ last_update' = now
            /\ bookCall' = BookCall("update_depth", applied.result)
            /\ UNCHANGED <<config, error_count, now>>

\* update_depth without the circuit-breaker check
update_depth_step_ignores_circuit(update) ==
    LET applied == apply_update(levels, update, now)
    IN /\ levels' = applied.levels
       /\ last_update' = IF applied.result.ok THEN now ELSE last_update
       /\ bookCall' = BookCall("update_depth", applied.result)
       /\ UNCHANGED <<config, error_count, circuit_open, circuit_open_until, now>>

\* update_depth counting an error when an entry fails to parse
update_depth_step_counts_errors(update) ==
    IF circuit_open /\ circuit_open_until # None /\ now < circuit_open_until[1]
    THEN /\ bookCall' = BookCall("update_depth", Ok)
         /\ UNCHANGED <<levels, config, last_update, error_count,
                        circuit_open, circuit_open_until, now>>
    ELSE LET expired == circuit_open /\ circuit_open_until # None
             applied == apply_update(levels, update, now)
         IN /\ circuit_open' = IF expired THEN FALSE ELSE circuit_open
            /\ circuit_open_until' = IF expired THEN None ELSE circuit_open_until
            /\ levels' = applied.levels
            /\ last_update' = IF applied.result.ok THEN now ELSE last_update
            /\ error_count' = IF applied.result.ok THEN error_count
                              ELSE error_count + 1
            /\ bookCall' = BookCall("update_depth", applied.result)
            /\ UNCHANGED <<config, now>>

\* update_depth applying the entries after the deadline without clearing the
\* flag
update_depth_step_keeps_flag(update) ==
    IF circuit_open /\ circuit_open_until # None /\ now < circuit_open_until[1]
    THEN /\ bookCall' = BookCall("update_depth", Ok)
         /\ UNCHANGED <<levels, config, last_update, error_count,
                        circuit_open, circuit_open_until, now>>
    ELSE LET applied == apply_update(levels, update, now)
         IN /\ levels' = applied.levels
            /\ last_update' = IF applied.result.ok THEN now ELSE last_update
            /\ bookCall' = BookCall("update_depth", applied.result)
            /\ UNCHANGED <<config, error_count, circuit_open,
                           circuit_open_until, now>>

update_depth_step(update) ==
    IF circuit_open /\ circuit_open_until # None /\ now < circuit_open_until[1]
    THEN \* the circuit is open: the update is ignored
         /\ bookCall' = BookCall("update_depth", Ok)
         /\ UNCHANGED <<levels, config, last_update, error_count,
                        circuit_open, circuit_open_until, now>>
    ELSE LET expired == circuit_open /\ circuit_open_until # None
             applied == apply_update(levels, update, now)
         IN /\ circuit_open' = IF expired THEN FALSE ELSE circuit_open
            /\ circuit_open_until' = IF expired THEN None ELSE circuit_open_until
            /\ levels' = applied.levels
            /\ last_update' = IF applied.result.ok THEN now ELSE last_update
            /\ bookCall' = BookCall("update_depth", applied.result)
            /\ UNCHANGED <<config, error_count, now>>

OrderBook_update_depth(update) ==
    /\ update_depth_step(update)
    /\ UNCHANGED depthCall
    /\ UNCHANGED bookFrame

\* Iterator::find(|(_, level)| !level.<side>.is_zero()): the first such key, if any
RECURSIVE find_nonzero(_, _, _)
find_nonzero(m, keys, side) ==
    IF keys = <<>> THEN None
    ELSE IF m[Head(keys)][side] # 0 THEN Some(Head(keys))
    ELSE find_nonzero(m, Tail(keys), side)

\* get_best_bid scanning upward: the first level with a bid from the low end
OrderBook_get_best_bid_ascending ==
    LET found == find_nonzero(levels, Ascending(DOMAIN levels), "bid")
    IN IF found = None THEN 0 ELSE found[1]

\* levels.iter().rev().find(bid != 0).map(price.to_f64()).unwrap_or(0.0)
OrderBook_get_best_bid ==
    LET found == find_nonzero(levels, Descending(DOMAIN levels), "bid")
    IN IF found = None THEN 0 ELSE found[1]

\* get_best_ask scanning downward: the first level with an ask from the high end
OrderBook_get_best_ask_descending ==
    LET found == find_nonzero(levels, Descending(DOMAIN levels), "ask")
    IN IF found = None THEN INFINITY ELSE Finite(found[1])

\* levels.iter().find(ask != 0).map(price.to_f64()).unwrap_or(INFINITY)
OrderBook_get_best_ask ==
    LET found == find_nonzero(levels, Ascending(DOMAIN levels), "ask")
    IN IF found = None THEN INFINITY ELSE Finite(found[1])

\* Decimal::from_f64_retain(x).unwrap_or(Decimal::ZERO): None for an infinity
from_f64_retain_or_zero(x) == IF x.inf THEN 0 ELSE x.val

\* a Decimal result that need not be whole: num / den
Ratio(num, den) == [num |-> num, den |-> den]
Whole(n) == Ratio(n, 1)

\* financial_math.rs: ask - bid, unless the bid is zero
calculate_spread(ask, bid) == IF bid = 0 THEN 0 ELSE ask - bid

\* financial_math.rs: (bid + ask) / 2, unless a side is zero
calculate_mid_price(bid, ask) ==
    IF bid = 0 \/ ask = 0 THEN Whole(0) ELSE Ratio(bid + ask, 2)

OrderBook_get_spread ==
    LET best_bid == from_f64_retain_or_zero(Finite(OrderBook_get_best_bid))
        best_ask == from_f64_retain_or_zero(OrderBook_get_best_ask)
    IN IF best_bid = 0 \/ best_ask = 0 THEN 0
       ELSE calculate_spread(best_ask, best_bid)

\* get_mid_price without the fallback for a missing side
OrderBook_get_mid_price_no_fallback ==
    Ratio(from_f64_retain_or_zero(Finite(OrderBook_get_best_bid))
            + from_f64_retain_or_zero(OrderBook_get_best_ask), 2)

OrderBook_get_mid_price ==
    LET best_bid == from_f64_retain_or_zero(Finite(OrderBook_get_best_bid))
        best_ask == from_f64_retain_or_zero(OrderBook_get_best_ask)
    IN IF best_bid = 0 \/ best_ask = 0 THEN Whole(0)
       ELSE calculate_mid_price(best_bid, best_ask)

\* the single pass of get_depth_metrics over levels.values()
RECURSIVE depth_pass(_, _)
depth_pass(keys, acc) ==
    IF keys = <<>> THEN acc
    ELSE LET level == levels[Head(keys)]
             a1 == IF level.bid # 0
                   THEN [acc EXCEPT !.bid_levels = @ + 1,
                                    !.total_bid_volume = @ + level.bid]
                   ELSE acc
             a2 == IF level.ask # 0
                   THEN [a1 EXCEPT !.ask_levels = @ + 1,
                                   !.total_ask_volume = @ + level.ask]
                   ELSE a1
         IN depth_pass(Tail(keys), a2)

\* get_depth_metrics with the ask volume taken first in the imbalance
OrderBook_get_depth_metrics_ask_first ==
    LET sums == depth_pass(Ascending(DOMAIN levels),
                    [bid_levels |-> 0, ask_levels |-> 0,
                     total_bid_volume |-> 0, total_ask_volume |-> 0])
        total_volume == sums.total_bid_volume + sums.total_ask_volume
        imbalance == IF total_volume = 0 THEN Whole(0)
                     ELSE Ratio(sums.total_ask_volume - sums.total_bid_volume,
                                total_volume)
    IN [total_levels |-> Cardinality(DOMAIN levels),
        bid_levels |-> sums.bid_levels,
        ask_levels |-> sums.ask_levels,
        total_bid_volume |-> sums.total_bid_volume,
        total_ask_volume |-> sums.total_ask_volume,
        imbalance |-> imbalance]

OrderBook_get_depth_metrics ==
    LET sums == depth_pass(Ascending(DOMAIN levels),
                    [bid_levels |-> 0, ask_levels |-> 0,
                     total_bid_volume |-> 0, total_ask_volume |-> 0])
        total_volume == sums.total_bid_volume + sums.total_ask_volume
        imbalance == IF total_volume = 0 THEN Whole(0)
                     ELSE Ratio(sums.total_bid_volume - sums.total_ask_volume,
                                total_volume)
    IN [total_levels |-> Cardinality(DOMAIN levels),
        bid_levels |-> sums.bid_levels,
        ask_levels |-> sums.ask_levels,
        total_bid_volume |-> sums.total_bid_volume,
        total_ask_volume |-> sums.total_ask_volume,
        imbalance |-> imbalance]

\* a range that leaves its upper end out: range(min_price..max_price)
range_half_open(keys, min_price, max_price) ==
    Ascending({k \in keys : min_price <= k /\ k < max_price})

\* the keys BTreeMap::range(min_price..=max_price) visits, in its order
range_inclusive(keys, min_price, max_price) ==
    Ascending({k \in keys : min_price <= k /\ k <= max_price})

\* the loop of sum_band over the levels of the range
RECURSIVE band_pass(_, _, _)
band_pass(lv, keys, acc) ==
    IF keys = <<>> THEN acc
    ELSE band_pass(lv, Tail(keys),
                   [bid |-> acc.bid + lv[Head(keys)].bid,
                    ask |-> acc.ask + lv[Head(keys)].ask,
                    levels |-> acc.levels + 1])

\* sum_band on a book that holds the levels lv
sum_band(lv, center, band_ticks, tick_size) ==
    LET band_size == tick_size * band_ticks
        min_price == center - band_size
        max_price == center + band_size
    IN band_pass(lv, range_inclusive(DOMAIN lv, min_price, max_price),
                 [bid |-> 0, ask |-> 0, levels |-> 0])

OrderBook_sum_band(center, band_ticks, tick_size) ==
    sum_band(levels, center, band_ticks, tick_size)

OrderBook_size == Cardinality(DOMAIN levels)

\* the loop of get_health that counts the levels older than the stale threshold
RECURSIVE stale_pass(_, _)
stale_pass(keys, stale_levels) ==
    IF keys = <<>> THEN stale_levels
    ELSE stale_pass(Tail(keys),
            IF now - levels[Head(keys)].timestamp > config.stale_threshold_ms
            THEN stale_levels + 1 ELSE stale_levels)

\* get_health with the age thresholds met at equality
OrderBook_get_health_at_threshold ==
    LET last_update_age == now - last_update
        stale_levels == stale_pass(Ascending(DOMAIN levels), 0)
        status ==
            IF circuit_open \/ last_update_age >= UnhealthyAgeMs THEN "unhealthy"
            ELSE IF \/ error_count > config.max_error_rate \div 2
                    \/ last_update_age >= DegradedAgeMs
                    \/ stale_levels > Cardinality(DOMAIN levels) \div 10
                 THEN "degraded"
                 ELSE "healthy"
    IN [status |-> status,
        initialized |-> (DOMAIN levels # {}),
        last_update_ms |-> last_update_age,
        circuit_breaker_open |-> circuit_open,
        error_rate |-> error_count,
        book_size |-> Cardinality(DOMAIN levels),
        stale_levels |-> stale_levels]

OrderBook_get_health ==
    LET last_update_age == now - last_update
        stale_levels == stale_pass(Ascending(DOMAIN levels), 0)
        status ==
            IF circuit_open \/ last_update_age > UnhealthyAgeMs THEN "unhealthy"
            ELSE IF \/ error_count > config.max_error_rate \div 2
                    \/ last_update_age > DegradedAgeMs
                    \/ stale_levels > Cardinality(DOMAIN levels) \div 10
                 THEN "degraded"
                 ELSE "healthy"
    IN [status |-> status,
        initialized |-> (DOMAIN levels # {}),
        last_update_ms |-> last_update_age,
        circuit_breaker_open |-> circuit_open,
        error_rate |-> error_count,
        book_size |-> Cardinality(DOMAIN levels),
        stale_levels |-> stale_levels]

\* levels.get(&normalize_price(from_f64_retain(price)))
OrderBook_get_level(price) ==
    LET normalized_price == normalize_price(price)
    IN IF normalized_price \in DOMAIN levels
       THEN Some(levels[normalized_price]) ELSE None

\* clear() that also resets the circuit breaker
OrderBook_clear_resets_circuit ==
    /\ levels' = EmptyMap
    /\ circuit_open' = FALSE
    /\ circuit_open_until' = None
    /\ bookCall' = BookCall("clear", Ok)
    /\ UNCHANGED <<config, last_update, error_count, now>>
    /\ UNCHANGED depthCall
    /\ UNCHANGED bookFrame

OrderBook_clear ==
    /\ levels' = EmptyMap
    /\ bookCall' = BookCall("clear", Ok)
    /\ UNCHANGED <<config, last_update, error_count,
                   circuit_open, circuit_open_until, now>>
    /\ UNCHANGED depthCall
    /\ UNCHANGED bookFrame

\* OrderBookConfig::default() with the fields OrderBook::new sets
DefaultMaxLevels == 1000
OrderBookConfig(tick_size) ==
    [tick_size |-> tick_size, max_levels |-> DefaultMaxLevels,
     max_error_rate |-> 10, stale_threshold_ms |-> 300000]

InitBook ==
    /\ levels = EmptyMap
    /\ config \in {OrderBookConfig(t) : t \in 1..MaxTick}
    /\ last_update = 0
    /\ error_count = 0
    /\ circuit_open = FALSE
    /\ circuit_open_until = None
    /\ now = 0
    /\ bookCall = [op |-> "new", result |-> Ok, was_empty |-> TRUE]
    /\ depthCall = None

\* no call has been made on the financial-math kernel
NoMathCall == [op |-> "none"]
InitMath == mathArgs = <<>> /\ mathCall = NoMathCall

Init == InitTree /\ InitBook /\ InitRegistry /\ InitMath

NextBook ==
    \/ \E update \in DepthUpdates : OrderBook_update_depth(update)
    \/ OrderBook_clear

\* the tree alone: the book stays as one constructor call left it
TreeInit == Init /\ config.tick_size = 1

SpecTree == TreeInit /\ [][NextTree]_vars

SpecBook == Init /\ [][NextBook]_vars

\* the host module alone
SpecRegistry == TreeInit /\ [][NextRegistry]_vars

(***************************************************************************)
(* The book under a caller that keeps what it passed to update_depth and   *)
(* what the book held at the call, until it has looked at the result.      *)
(***************************************************************************)
\* a quantity literal of an observed update is "0" (which removes) or "1"
DepthEntries ==
    ({Literal(n) : n \in 0..DepthMaxPrice} \X {Literal(0), Literal(1)})
        \cup {<<BadLiteral, Literal(1)>>, <<Literal(1), OtherBadLiteral>>}

ObservedUpdates ==
    {u \in [bids : SeqsUpTo(DepthEntries, DepthMaxEntries),
            asks : SeqsUpTo(DepthEntries, DepthMaxEntries)] :
        Len(u.bids) + Len(u.asks) <= DepthMaxEntries}

\* the argument of the call and the fields of the book as the call found them
DepthCall(update) ==
    Some([update |-> update, levels |-> levels, last_update |-> last_update,
          error_count |-> error_count, circuit_open |-> circuit_open,
          circuit_open_until |-> circuit_open_until, now |-> now])

Caller_update_depth(update) ==
    /\ depthCall = None
    /\ update_depth_step(update)
    /\ depthCall' = DepthCall(update)
    /\ UNCHANGED bookFrame

\* the caller has looked at the result and keeps nothing of the call
Caller_take_result ==
    /\ depthCall # None
    /\ depthCall' = None
    /\ bookCall' = [op |-> "new", result |-> Ok, was_empty |-> TRUE]
    /\ UNCHANGED <<levels, config, last_update, error_count,
                   circuit_open, circuit_open_until, now>>
    /\ UNCHANGED bookFrame

NextDepth ==
    \/ \E update \in ObservedUpdates : Caller_update_depth(update)
    \/ Caller_take_result

SpecDepth == Init /\ [][NextDepth]_vars

(***************************************************************************)
(* The observed book with a running clock and the supervisor that opens    *)
(* the circuit: the book is constructed with tick size 1, an update names  *)
(* the prices 0 and 1 with quantity 1 or carries a price that does not     *)
(* parse.                                                                  *)
(***************************************************************************)
ClockEntries ==
    {<<Literal(0), Literal(1)>>, <<Literal(1), Literal(1)>>, <<BadLiteral, Literal(1)>>}

ClockUpdates ==
    {u \in [bids : SeqsUpTo(ClockEntries, DepthMaxEntries),
            asks : SeqsUpTo(ClockEntries, DepthMaxEntries)] :
        Len(u.bids) + Len(u.asks) <= DepthMaxEntries}

\* time passes
Clock_tick ==
    /\ now < MaxNow
    /\ now' = now + 1
    /\ UNCHANGED <<levels, config, last_update, error_count,
                   circuit_open, circuit_open_until, bookCall>>
    /\ UNCHANGED depthCall
    /\ UNCHANGED bookFrame

\* the supervisor opens the circuit until a deadline still to come
Supervisor_open_circuit(until) ==
    /\ depthCall = None
    /\ until > now
    /\ circuit_open' = TRUE
    /\ circuit_open_until' = Some(until)
    /\ UNCHANGED <<levels, config, last_update, error_count, now, bookCall>>
    /\ UNCHANGED depthCall
    /\ UNCHANGED bookFrame

ClockInit == Init /\ config.tick_size = 1

NextClock ==
    \/ \E update \in ClockUpdates : Caller_update_depth(update)
    \/ Caller_take_result
    \/ Clock_tick
    \/ \E until \in 1..MaxNow : Supervisor_open_circuit(until)

SpecClock == ClockInit /\ [][NextClock]_vars

(***************************************************************************)
(* The book as get_health sees it: the clock is read at the instants where *)
(* an age reaches or passes a threshold, one-entry updates write or remove *)
(* a bid at the prices 0 and 1, and the supervisor opens the circuit and   *)
(* counts errors.                                                          *)
(***************************************************************************)
HealthInstants ==
    {0, DegradedAgeMs, DegradedAgeMs + 1, UnhealthyAgeMs, UnhealthyAgeMs + 1,
     OrderBookConfig(1).stale_threshold_ms, OrderBookConfig(1).stale_threshold_ms + 1}

HealthUpdates ==
    {[bids |-> <<e>>, asks |-> <<>>] :
        e \in {<<Literal(0), Literal(1)>>, <<Literal(1), Literal(1)>>,
               <<Literal(0), Literal(0)>>, <<BadLiteral, Literal(1)>>}}

\* time passes until the clock is next read
Clock_advance(instant) ==
    /\ instant > now
    /\ now' = instant
    /\ UNCHANGED <<levels, config, last_update, error_count,
                   circuit_open, circuit_open_until, bookCall>>
    /\ UNCHANGED depthCall
    /\ UNCHANGED bookFrame

\* the supervisor counts a rejected update
Supervisor_count_error ==
    /\ error_count <= config.max_error_rate \div 2
    /\ error_count' = error_count + 1
    /\ UNCHANGED <<levels, config, last_update, circuit_open,
                   circuit_open_until, now, bookCall>>
    /\ UNCHANGED depthCall
    /\ UNCHANGED bookFrame

NextHealth ==
    \/ \E update \in HealthUpdates : OrderBook_update_depth(update)
    \/ \E instant \in HealthInstants : Clock_advance(instant)
    \/ Supervisor_open_circuit(now + 1)
    \/ Supervisor_count_error

SpecHealth == ClockInit /\ [][NextHealth]_vars

(***************************************************************************)
(* The book filled by a feed: each update_depth call carries FillBatch      *)
(* entries of quantity 1 at the lowest prices the book does not hold yet,   *)
(* the lower half as bids and the upper half as asks, until the book holds *)
(* more levels than config.max_levels.                                     *)
(***************************************************************************)
FillBatch == 10

FillUpdate ==
    LET base == Cardinality(DOMAIN levels)
        half == FillBatch \div 2
    IN [bids |-> [i \in 1..half |-> <<Literal(base + i - 1), Literal(1)>>],
        asks |-> [i \in 1..(FillBatch - half) |->
                    <<Literal(base + half + i - 1), Literal(1)>>]]

Fill_next_level ==
    /\ Cardinality(DOMAIN levels) <= config.max_levels
    /\ Caller_update_depth(FillUpdate)

NextFill ==
    \/ Fill_next_level
    \/ Caller_take_result

SpecFill == ClockInit /\ [][NextFill]_vars

(***************************************************************************)
(* The circuit breaker over the whole API: update_depth, clear() and the   *)
(* query get_health (a &self method, which returns its report and writes   *)
(* nothing) are called while the clock runs and the supervisor opens the   *)
(* circuit.                                                                *)
(***************************************************************************)
\* get_health is called and its report returned
OrderBook_get_health_call ==
    /\ bookCall' = BookCall("get_health", OrderBook_get_health)
    /\ UNCHANGED <<levels, config, last_update, error_count,
                   circuit_open, circuit_open_until, now>>
    /\ UNCHANGED depthCall
    /\ UNCHANGED bookFrame

NextCircuit ==
    \/ \E update \in HealthUpdates : OrderBook_update_depth(update)
    \/ OrderBook_clear
    \/ OrderBook_get_health_call
    \/ Clock_tick
    \/ \E until \in 1..MaxNow : Supervisor_open_circuit(until)

SpecCircuit == ClockInit /\ [][NextCircuit]_vars

(***************************************************************************)
(* The host module of the book (rust/orderbook-bindings/src/lib.rs): one   *)
(* book registered in ORDER_BOOK_REGISTRY, whose mutex is registry_lock    *)
(* here, and threads that call update_depth and the read functions on it.  *)
(* update_depth is followed entry by entry, as its two loops run.          *)
(***************************************************************************)
BookOps == {"update_depth", "read"}
hostFrame == <<treeVars, depthCall, registry, tree_lock, config, error_count,
               circuit_open, circuit_open_until, now, bookCall, mathVars>>

\* a host function of the book is entered
Book_call(thread, op) ==
    /\ pc[thread].at = "idle"
    /\ pc' = [pc EXCEPT ![thread] = [at |-> "registry_lock", op |-> op, id |-> "a"]]
    /\ UNCHANGED <<levels, last_update, registry_lock>>
    /\ UNCHANGED hostFrame

\* order_book.update_depth(updates) is entered: the circuit is closed, the
\* time of the call is read
Book_update_begin(thread, update) ==
    /\ pc[thread].at = "registry_held"
    /\ pc[thread].op = "update_depth"
    /\ pc' = [pc EXCEPT ![thread] =
                [at |-> "entries", op |-> "update_depth", id |-> "a",
                 bids |-> update.bids, asks |-> update.asks, stamp |-> now]]
    /\ UNCHANGED <<levels, last_update, registry_lock>>
    /\ UNCHANGED hostFrame

\* one turn of the loop over the bids, or of the loop over the asks once the
\* bids are done: the pair is parsed and applied, or the call ends on it
Book_update_entry(thread) ==
    /\ pc[thread].at = "entries"
    /\ pc[thread].bids # <<>> \/ pc[thread].asks # <<>>
    /\ LET side == IF pc[thread].bids # <<>> THEN "bid" ELSE "ask"
           pair == IF side = "bid" THEN Head(pc[thread].bids)
                   ELSE Head(pc[thread].asks)
       IN IF ~pair[1].parses \/ ~pair[2].parses
          THEN /\ pc' = At(thread, "return")
               /\ UNCHANGED levels
          ELSE /\ levels' =
                    IF side = "bid"
                    THEN update_level(levels, pair[1].num, pair[2].num, 0,
                                      pc[thread].stamp)
                    ELSE update_level(levels, pair[1].num, 0, pair[2].num,
                                      pc[thread].stamp)
               /\ pc' = [pc EXCEPT ![thread] =
                           IF side = "bid" THEN [@ EXCEPT !.bids = Tail(@)]
                           ELSE [@ EXCEPT !.asks = Tail(@)]]
    /\ UNCHANGED <<last_update, registry_lock>>
    /\ UNCHANGED hostFrame

\* both loops are done: self.last_update = now; Ok(())
Book_update_end(thread) ==
    /\ pc[thread].at = "entries"
    /\ pc[thread].bids = <<>> /\ pc[thread].asks = <<>>
    /\ last_update' = pc[thread].stamp
    /\ pc' = At(thread, "return")
    /\ UNCHANGED <<levels, registry_lock>>
    /\ UNCHANGED hostFrame

\* a read function looks at the book through registry.get(&id)
Book_read(thread) ==
    /\ pc[thread].at = "registry_held"
    /\ pc[thread].op = "read"
    /\ pc' = [pc EXCEPT ![thread] =
                [at |-> "return", op |-> "read", id |-> "a", seen |-> levels]]
    /\ UNCHANGED <<levels, last_update, registry_lock>>
    /\ UNCHANGED hostFrame

NextHostBook ==
    \/ \E thread \in HostThreads, op \in BookOps : Book_call(thread, op)
    \/ \E thread \in HostThreads : Registry_lock(thread)
    \/ \E thread \in HostThreads, update \in ClockUpdates :
          Book_update_begin(thread, update)
    \/ \E thread \in HostThreads : Book_update_entry(thread)
    \/ \E thread \in HostThreads : Book_update_end(thread)
    \/ \E thread \in HostThreads : Book_read(thread)
    \/ \E thread \in HostThreads : Host_return(thread)

SpecHostBook == ClockInit /\ [][NextHostBook]_vars

(***************************************************************************)
(* The financial-math kernel (backend/rust/financial-math, rust/           *)
(* financial-math): pure functions on u128 fixed-point values.  The u128   *)
(* of the model has U128Bits bits.  An arithmetic operator of Rust that    *)
(* overflows panics when the crate is built with overflow checks and wraps *)
(* when it is built without, so the build is one of the inputs.            *)
(***************************************************************************)
RECURSIVE Pow2(_)
Pow2(n) == IF n = 0 THEN 1 ELSE 2 * Pow2(n - 1)

U128_MAX == Pow2(U128Bits) - 1

\* a value that was never computed because the thread panicked
Panic == -1

\* a * b modulo 2^U128Bits, by halving b
RECURSIVE wrapping_mul(_, _)
wrapping_mul(a, b) ==
    IF b = 0 THEN 0
    ELSE (2 * wrapping_mul(a, b \div 2) + (b % 2) * a) % Pow2(U128Bits)

\* a + b, a - b, a * b as the operators + - * of u128 compute them
add(overflow_checks, a, b) ==
    IF a = Panic \/ b = Panic THEN Panic
    ELSE IF a + b <= U128_MAX THEN a + b
    ELSE IF overflow_checks THEN Panic
    ELSE a + b - Pow2(U128Bits)

sub(overflow_checks, a, b) ==
    IF a = Panic \/ b = Panic THEN Panic
    ELSE IF a >= b THEN a - b
    ELSE IF overflow_checks THEN Panic
    ELSE a - b + Pow2(U128Bits)

mul(overflow_checks, a, b) ==
    IF a = Panic \/ b = Panic THEN Panic
    ELSE IF a = 0 \/ b <= U128_MAX \div a THEN a * b
    ELSE IF overflow_checks THEN Panic
    ELSE wrapping_mul(a, b)

\* a / b and a % b: a zero divisor panics in every build
div(a, b) == IF a = Panic \/ b = Panic \/ b = 0 THEN Panic ELSE a \div b
rem(a, b) == IF a = Panic \/ b = Panic \/ b = 0 THEN Panic ELSE a % b

\* 10u128.pow(exp)
RECURSIVE pow10(_, _)
pow10(overflow_checks, exp) ==
    IF exp = 0 THEN 1 ELSE mul(overflow_checks, pow10(overflow_checks, exp - 1), 10)

\* a.saturating_sub(b)
saturating_sub(a, b) ==
    IF a = Panic \/ b = Panic THEN Panic ELSE IF a >= b THEN a - b ELSE 0

\* a | (1u128 << 127)
or_top_bit(a) ==
    IF a = Panic THEN Panic
    ELSE IF a >= Pow2(U128Bits - 1) THEN a ELSE a + Pow2(U128Bits - 1)

\* FinancialResult<u128>, a bare u128, and the call that did not return
FOk(value) == [tag |-> "Ok", value |-> value, error |-> ""]
FErr(error) == [tag |-> "Err", value |-> 0, error |-> error]
U128(value) == [tag |-> "u128", value |-> value, error |-> ""]
Panicked == [tag |-> "panic", value |-> 0, error |-> ""]
OkOrPanic(value) == IF value = Panic THEN Panicked ELSE FOk(value)
U128OrPanic(value) == IF value = Panic THEN Panicked ELSE U128(value)

\* a.checked_add(b) that wraps instead of failing
safe_add_wrapping(a, b) == FOk((a + b) % Pow2(U128Bits))

safe_add(a, b) ==
    IF a + b <= U128_MAX THEN FOk(a + b) ELSE FErr("Overflow")

safe_subtract(a, b) ==
    IF a >= b THEN FOk(a - b) ELSE FErr("Overflow")

safe_multiply(a, b) ==
    IF a = 0 \/ b <= U128_MAX \div a THEN FOk(a * b) ELSE FErr("Overflow")

safe_divide(a, b) ==
    IF b = 0 THEN FErr("DivisionByZero") ELSE FOk(a \div b)

\* arithmetic.rs: bid + (ask - bid) / 2
arithmetic_calculate_mid_price(overflow_checks, bid, ask) ==
    U128OrPanic(add(overflow_checks, bid, div(sub(overflow_checks, ask, bid), 2)))

\* arithmetic.rs: ask.saturating_sub(bid)
arithmetic_calculate_spread(ask, bid) == U128(saturating_sub(ask, bid))

\* the host function calculate_spread(bid, ask) of the bindings, once its two
\* string arguments have parsed: the kernel function is called with the bid
\* first and the ask second
host_calculate_spread(bid_u128, ask_u128) ==
    arithmetic_calculate_spread(bid_u128, ask_u128)

multiply_quantities(qty1, qty2) == safe_multiply(qty1, qty2)

calculate_percentage_change(overflow_checks, old_value, new_value) ==
    IF old_value = 0 THEN FErr("DivisionByZero")
    ELSE LET diff == IF new_value > old_value THEN new_value - old_value
                     ELSE old_value - new_value
             ratio == div(mul(overflow_checks, diff, 10000), old_value)
         IN IF new_value >= old_value THEN OkOrPanic(ratio)
            ELSE OkOrPanic(or_top_bit(ratio))

calculate_compound_change(overflow_checks, old_value, new_value) ==
    IF old_value = 0 THEN FErr("DivisionByZero")
    ELSE LET ratio == div(mul(overflow_checks, new_value, 10000), old_value)
         IN OkOrPanic(saturating_sub(ratio, 10000))

from_basis_points(overflow_checks, basis_points) ==
    U128OrPanic(mul(overflow_checks, basis_points, 100))

financial_round(overflow_checks, value, current_scale, target_decimals) ==
    IF target_decimals >= current_scale THEN U128(value)
    ELSE LET divisor == pow10(overflow_checks, current_scale - target_decimals)
             remainder == rem(value, divisor)
             threshold == div(divisor, 2)
         IN IF remainder = Panic THEN Panicked
            ELSE IF remainder > threshold
                 THEN U128OrPanic(add(overflow_checks, value, divisor - remainder))
            ELSE IF remainder = threshold
                 THEN LET base == value - remainder
                      IN IF (base \div divisor) % 2 = 0 THEN U128(base)
                         ELSE U128OrPanic(add(overflow_checks, base, divisor))
            ELSE U128(value - remainder)

precise_divide(overflow_checks, numerator, denominator, scale) ==
    IF denominator = 0 THEN FErr("DivisionByZero")
    ELSE OkOrPanic(div(mul(overflow_checks, numerator,
                           pow10(overflow_checks, scale)), denominator))

\* zones.rs: the tick normalisation of the kernel, on u128
zones_normalize_price_to_tick(overflow_checks, price, tick_size) ==
    IF tick_size = 0 THEN FErr("DivisionByZero")
    ELSE LET remainder == price % tick_size
             half_tick == tick_size \div 2
         IN IF remainder = 0 THEN FOk(price)
            ELSE IF remainder > half_tick
                 THEN OkOrPanic(add(overflow_checks, price, tick_size - remainder))
            ELSE IF remainder = half_tick
                 THEN LET base == price - remainder
                      IN IF (base \div tick_size) % 2 = 0 THEN FOk(base)
                         ELSE OkOrPanic(add(overflow_checks, base, tick_size))
            ELSE FOk(price - remainder)

\* the values a caller passes: small ones, the largest ones, the ones around
\* the top bit, and one, five and ten units of a quantity
U128Samples ==
    (0 .. MaxSample)
        \cup {U128_MAX - k : k \in 0 .. MaxSample}
        \cup {Pow2(U128Bits - 1) - 1, Pow2(U128Bits - 1)}
        \cup {QuantityUnit, 5 * QuantityUnit, 10 * QuantityUnit}

\* the scales (numbers of decimals) a caller passes
Scales == (0 .. MaxScale) \cup {U128Bits}

MathCall(op, result) == [op |-> op, result |-> result]

Call_safe_add ==
    /\ mathCall = NoMathCall
    /\ mathCall' = MathCall("safe_add", safe_add(mathArgs.a, mathArgs.b))
    /\ UNCHANGED mathArgs
    /\ UNCHANGED mathFrame

Call_safe_subtract ==
    /\ mathCall = NoMathCall
    /\ mathCall' = MathCall("safe_subtract", safe_subtract(mathArgs.a, mathArgs.b))
    /\ UNCHANGED mathArgs
    /\ UNCHANGED mathFrame

Call_safe_multiply ==
    /\ mathCall = NoMathCall
    /\ mathCall' = MathCall("safe_multiply", safe_multiply(mathArgs.a, mathArgs.b))
    /\ UNCHANGED mathArgs
    /\ UNCHANGED mathFrame

Call_safe_divide ==
    /\ mathCall = NoMathCall
    /\ mathCall' = MathCall("safe_divide", safe_divide(mathArgs.a, mathArgs.b))
    /\ UNCHANGED mathArgs
    /\ UNCHANGED mathFrame

\* calculate_mid_price(bid, ask)
Call_calculate_mid_price ==
    /\ mathCall = NoMathCall
    /\ mathCall' = MathCall("calculate_mid_price",
            arithmetic_calculate_mid_price(mathArgs.overflow_checks,
                                           mathArgs.a, mathArgs.b))
    /\ UNCHANGED mathArgs
    /\ UNCHANGED mathFrame

\* the host calls calculateSpread(bid, ask)
Call_host_calculate_spread ==
    /\ mathCall = NoMathCall
    /\ mathCall' = MathCall("host_calculate_spread",
                            host_calculate_spread(mathArgs.a, mathArgs.b))
    /\ UNCHANGED mathArgs
    /\ UNCHANGED mathFrame

Call_multiply_quantities ==
    /\ mathCall = NoMathCall
    /\ mathCall' = MathCall("multiply_quantities",
                            multiply_quantities(mathArgs.a, mathArgs.b))
    /\ UNCHANGED mathArgs
    /\ UNCHANGED mathFrame

\* calculate_percentage_change(old_value, new_value)
Call_calculate_percentage_change ==
    /\ mathCall = NoMathCall
    /\ mathCall' = MathCall("calculate_percentage_change",
            calculate_percentage_change(mathArgs.overflow_checks,
                                        mathArgs.a, mathArgs.b))
    /\ UNCHANGED mathArgs
    /\ UNCHANGED mathFrame

Call_calculate_compound_change ==
    /\ mathCall = NoMathCall
    /\ mathCall' = MathCall("calculate_compound_change",
            calculate_compound_change(mathArgs.overflow_checks,
                                      mathArgs.a, mathArgs.b))
    /\ UNCHANGED mathArgs
    /\ UNCHANGED mathFrame

Call_from_basis_points ==
    /\ mathCall = NoMathCall
    /\ mathCall' = MathCall("from_basis_points",
            from_basis_points(mathArgs.overflow_checks, mathArgs.a))
    /\ UNCHANGED mathArgs
    /\ UNCHANGED mathFrame

\* financial_round(value, current_scale, target_decimals)
Call_financial_round(current_scale, target_decimals) ==
    /\ mathCall = NoMathCall
    /\ mathCall' = [op |-> "financial_round",
                    current_scale |-> current_scale,
                    target_decimals |-> target_decimals,
                    result |-> financial_round(mathArgs.overflow_checks,
                                  mathArgs.a, current_scale, target_decimals)]
    /\ UNCHANGED mathArgs
    /\ UNCHANGED mathFrame

\* precise_divide(numerator, denominator, scale)
Call_precise_divide(scale) ==
    /\ mathCall = NoMathCall
    /\ mathCall' = [op |-> "precise_divide", scale |-> scale,
                    result |-> precise_divide(mathArgs.overflow_checks,
                                  mathArgs.a, mathArgs.b, scale)]
    /\ UNCHANGED mathArgs
    /\ UNCHANGED mathFrame

\* normalize_price_to_tick(price, tick_size)
Call_normalize_price_to_tick ==
    /\ mathCall = NoMathCall
    /\ mathCall' = MathCall("normalize_price_to_tick",
            zones_normalize_price_to_tick(mathArgs.overflow_checks,
                                          mathArgs.a, mathArgs.b))
    /\ UNCHANGED mathArgs
    /\ UNCHANGED mathFrame

\* the caller has looked at the result and is ready for its next call
Caller_take_math_result ==
    /\ mathCall # NoMathCall
    /\ mathCall.result.tag # "running"
    /\ mathCall' = NoMathCall
    /\ UNCHANGED mathArgs
    /\ UNCHANGED mathFrame

(***************************************************************************)
(* f64 as the kernel uses it: a sign and a mantissa of at most F64Bits     *)
(* bits times a power of two, or NaN, or an infinity.  Every operation     *)
(* rounds its exact result to the nearest such value, ties to the even     *)
(* mantissa.                                                               *)
(***************************************************************************)
f64(neg, m, e) == [kind |-> "finite", neg |-> neg, m |-> m, e |-> e]
NAN == [kind |-> "nan", neg |-> FALSE, m |-> 0, e |-> 0]
F64_INFINITY == [kind |-> "inf", neg |-> FALSE, m |-> 0, e |-> 0]
F64_NEG_INFINITY == [kind |-> "inf", neg |-> TRUE, m |-> 0, e |-> 0]

is_finite(x) == x.kind = "finite"
\* x < 0.0
is_negative(x) == x.kind # "nan" /\ x.neg /\ (x.kind = "inf" \/ x.m > 0)

\* the bits of m beyond the width of the mantissa
RECURSIVE excess_bits(_)
excess_bits(m) == IF m < Pow2(F64Bits) THEN 0 ELSE 1 + excess_bits(m \div 2)

\* the float nearest to m * 2^e
f64_nearest(neg, m, e) ==
    LET k == excess_bits(m)
        q == m \div Pow2(k)
        r == m % Pow2(k)
        up == 2 * r > Pow2(k) \/ (2 * r = Pow2(k) /\ q % 2 = 1)
    IN f64(neg, IF up THEN q + 1 ELSE q, e + k)

\* n as f64
u128_as_f64(n) == f64_nearest(FALSE, n, 0)

\* x * y of two finite values
f64_mul(x, y) == f64_nearest(x.neg # y.neg, x.m * y.m, x.e + y.e)

\* the least s with m * 2^s / d at or above half the mantissa range
RECURSIVE quotient_shift(_, _, _)
quotient_shift(m, d, s) ==
    IF (m * Pow2(s)) \div d >= Pow2(F64Bits - 1) THEN s
    ELSE quotient_shift(m, d, s + 1)

\* x / y of two finite values that are not negative, y not zero
f64_div(x, y) ==
    IF x.m = 0 THEN f64(FALSE, 0, 0)
    ELSE LET s == quotient_shift(x.m, y.m, 0)
             q == (x.m * Pow2(s)) \div y.m
             r == (x.m * Pow2(s)) % y.m
             up == 2 * r > y.m \/ (2 * r = y.m /\ q % 2 = 1)
         IN f64_nearest(FALSE, IF up THEN q + 1 ELSE q, x.e - y.e - s)

\* x - y of two finite values with x >= y >= 0
f64_sub(x, y) ==
    LET e == IF x.e <= y.e THEN x.e ELSE y.e
    IN f64_nearest(FALSE, x.m * Pow2(x.e - e) - y.m * Pow2(y.e - e), e)

\* the whole part of a finite value that is not negative
f64_floor(x) ==
    IF x.e >= 0 THEN x.m * Pow2(x.e) ELSE x.m \div Pow2(0 - x.e)

\* x as usize, for the small positions of a percentile
f64_as_usize(x) == f64_floor(x)

\* x as u128: NaN to 0, below zero to 0, beyond the width to u128::MAX
f64_as_u128(x) ==
    IF x.kind = "nan" THEN 0
    ELSE IF x.neg THEN 0
    ELSE IF x.kind = "inf" THEN U128_MAX
    ELSE IF x.m = 0 THEN 0
    ELSE IF x.e >= U128Bits THEN U128_MAX
    ELSE IF f64_floor(x) > U128_MAX THEN U128_MAX
    ELSE f64_floor(x)

\* x.round() of a finite value: to the nearest whole number, halves away from
\* zero
f64_round(x) ==
    IF x.e >= 0 THEN x
    ELSE LET whole == x.m \div Pow2(0 - x.e)
             part == x.m % Pow2(0 - x.e)
         IN f64(x.neg, IF 2 * part >= Pow2(0 - x.e) THEN whole + 1 ELSE whole, 0)

(***************************************************************************)
(* rust/financial-math/src/conversions.rs                                  *)
(***************************************************************************)
PRICE_SCALE == 8
QUANTITY_SCALE == 8

\* Scale::multiplier(): 10u128.pow(scale) of a scale constant, a number that
\* the u128 of the code holds whatever the width of the model's
multiplier(scale) == 10 ^ scale

\* the scaling shared by the three conversions:
\* (value * multiplier as f64).round() as u128
scaled(value, by) == f64_as_u128(f64_round(f64_mul(value, u128_as_f64(by))))

price_to_int(price) ==
    IF ~is_finite(price) \/ is_negative(price) THEN FErr("InvalidValue")
    ELSE FOk(scaled(price, multiplier(PRICE_SCALE)))

quantity_to_int(quantity) ==
    IF ~is_finite(quantity) \/ is_negative(quantity) THEN FErr("InvalidValue")
    ELSE FOk(scaled(quantity, multiplier(QUANTITY_SCALE)))

percentage_to_int(percentage) ==
    IF ~is_finite(percentage) THEN FErr("InvalidValue")
    ELSE FOk(scaled(percentage, 10000))

\* the f64 values a caller passes: NaN, the infinities, and both signs of a
\* few mantissas at a few binary exponents
F64Samples ==
    {NAN, F64_INFINITY, F64_NEG_INFINITY}
        \cup {f64(neg, m, e) : neg \in BOOLEAN, m \in 0 .. MaxMantissa,
                                e \in {-14, -5, -1, 0}}

Call_price_to_int ==
    /\ mathCall = NoMathCall
    /\ mathCall' = MathCall("price_to_int", price_to_int(mathArgs.x))
    /\ UNCHANGED mathArgs
    /\ UNCHANGED mathFrame

Call_quantity_to_int ==
    /\ mathCall = NoMathCall
    /\ mathCall' = MathCall("quantity_to_int", quantity_to_int(mathArgs.x))
    /\ UNCHANGED mathArgs
    /\ UNCHANGED mathFrame

Call_percentage_to_int ==
    /\ mathCall = NoMathCall
    /\ mathCall' = MathCall("percentage_to_int", percentage_to_int(mathArgs.x))
    /\ UNCHANGED mathArgs
    /\ UNCHANGED mathFrame

\* the caller holds one f64 value
ConversionsInit ==
    /\ InitTree /\ InitBook /\ InitRegistry
    /\ config.tick_size = 1
    /\ mathArgs \in [x : F64Samples]
    /\ mathCall = NoMathCall

NextConversions ==
    \/ Call_price_to_int
    \/ Call_quantity_to_int
    \/ Call_percentage_to_int
    \/ Caller_take_math_result

SpecConversions == ConversionsInit /\ [][NextConversions]_vars

(***************************************************************************)
(* rust/financial-math/src/statistics.rs                                   *)
(***************************************************************************)
\* values.iter().sum(), and the sum of the squared differences from the mean
RECURSIVE iter_sum(_, _)
iter_sum(overflow_checks, values) ==
    IF values = <<>> THEN 0
    ELSE add(overflow_checks, Head(values), iter_sum(overflow_checks, Tail(values)))

RECURSIVE sum_squared_diff(_, _, _)
sum_squared_diff(overflow_checks, values, mean) ==
    IF values = <<>> THEN 0
    ELSE LET x == Head(values)
             diff == IF x > mean THEN x - mean ELSE mean - x
         IN add(overflow_checks, mul(overflow_checks, diff, diff),
                sum_squared_diff(overflow_checks, Tail(values), mean))

calculate_mean(overflow_checks, values) ==
    IF values = <<>> THEN FErr("InvalidValue")
    ELSE OkOrPanic(div(iter_sum(overflow_checks, values), Len(values)))

calculate_variance(overflow_checks, values, mean) ==
    IF Len(values) < 2 THEN FErr("InvalidValue")
    ELSE OkOrPanic(div(sum_squared_diff(overflow_checks, values, mean),
                       Len(values) - 1))

\* the loop of integer_sqrt: while y < x { x = y; y = (x + n / x) / 2 }
\* a Newton step that rounds the mean up
newton_step_rounds_up(overflow_checks, n, x) ==
    div(add(overflow_checks, add(overflow_checks, x, div(n, x)), 1), 2)

\* (x + n / x) / 2
newton_step(overflow_checks, n, x) ==
    div(add(overflow_checks, x, div(n, x)), 2)

RECURSIVE sqrt_loop(_, _, _, _)
sqrt_loop(overflow_checks, n, x, y) ==
    IF y = Panic THEN Panic
    ELSE IF y < x THEN sqrt_loop(overflow_checks, n, y,
                                 newton_step(overflow_checks, n, y))
    ELSE x

integer_sqrt(overflow_checks, n) ==
    IF n = 0 \/ n = 1 THEN FOk(n)
    ELSE OkOrPanic(sqrt_loop(overflow_checks, n, n \div 2,
                             newton_step(overflow_checks, n, n \div 2)))

\* the operator ? on a result: the error or the panic ends the caller too
calculate_std_dev(overflow_checks, values) ==
    IF Len(values) < 2 THEN FErr("InvalidValue")
    ELSE LET mean == calculate_mean(overflow_checks, values)
         IN IF mean.tag # "Ok" THEN mean
            ELSE LET variance == calculate_variance(overflow_checks, values,
                                                    mean.value)
                 IN IF variance.tag # "Ok" THEN variance
                    ELSE integer_sqrt(overflow_checks, variance.value)

\* sorted_values.sort_unstable()
sort_unstable(values) == SortSeq(values, LAMBDA x, y : x < y)

calculate_percentile(overflow_checks, values, percentile) ==
    IF values = <<>> \/ percentile > 100 THEN FErr("InvalidValue")
    ELSE IF Len(values) = 1 THEN FOk(values[1])
    ELSE LET sorted_values == sort_unstable(values)
             len == Len(sorted_values)
             position == f64_div(f64_mul(u128_as_f64(percentile),
                                         f64_sub(u128_as_f64(len), u128_as_f64(1))),
                                 u128_as_f64(100))
             lower_index == f64_as_usize(position)
             upper_index == lower_index + 1
         IN IF percentile = 0 THEN FOk(sorted_values[1])
            ELSE IF percentile = 100 THEN FOk(sorted_values[len])
            ELSE IF upper_index >= len THEN FOk(sorted_values[lower_index + 1])
            ELSE LET lower_value == sorted_values[lower_index + 1]
                     upper_value == sorted_values[upper_index + 1]
                     fraction == f64_sub(position, u128_as_f64(lower_index))
                     diff == upper_value - lower_value
                 IN OkOrPanic(add(overflow_checks, lower_value,
                        f64_as_u128(f64_mul(u128_as_f64(diff), fraction))))

\* the slices a caller builds from the two values it holds
ValueLists ==
    UNION {[1 .. n -> {mathArgs.a, mathArgs.b}] : n \in 0 .. MaxValues}

\* the percentiles a caller asks for
Percentiles == {0, 25, 29, 50, 75, 100, 101}

Call_calculate_mean(values) ==
    /\ mathCall = NoMathCall
    /\ mathCall' = [op |-> "calculate_mean", values |-> values,
                    result |-> calculate_mean(mathArgs.overflow_checks, values)]
    /\ UNCHANGED mathArgs
    /\ UNCHANGED mathFrame

Call_calculate_variance(values, mean) ==
    /\ mathCall = NoMathCall
    /\ mathCall' = [op |-> "calculate_variance", values |-> values, mean |-> mean,
                    result |-> calculate_variance(mathArgs.overflow_checks,
                                                  values, mean)]
    /\ UNCHANGED mathArgs
    /\ UNCHANGED mathFrame

Call_calculate_std_dev(values) ==
    /\ mathCall = NoMathCall
    /\ mathCall' = [op |-> "calculate_std_dev", values |-> values,
                    result |-> calculate_std_dev(mathArgs.overflow_checks, values)]
    /\ UNCHANGED mathArgs
    /\ UNCHANGED mathFrame

Call_calculate_percentile(values, percentile) ==
    /\ mathCall = NoMathCall
    /\ mathCall' = [op |-> "calculate_percentile", values |-> values,
                    percentile |-> percentile,
                    result |-> calculate_percentile(mathArgs.overflow_checks,
                                                    values, percentile)]
    /\ UNCHANGED mathArgs
    /\ UNCHANGED mathFrame

(***************************************************************************)
(* integer_sqrt followed turn by turn of its loop: mathCall holds n, the   *)
(* approximation x and the next one y until the function returns.          *)
(***************************************************************************)
Running == [tag |-> "running", value |-> 0, error |-> ""]

\* the values a variance takes: the two values held and their product
SqrtArguments ==
    {mathArgs.a, mathArgs.b}
        \cup {n \in {safe_multiply(mathArgs.a, mathArgs.b).value} :
                 safe_multiply(mathArgs.a, mathArgs.b).tag = "Ok"}

\* integer_sqrt(n) up to the head of its loop
Sqrt_begin(n) ==
    /\ mathCall = NoMathCall
    /\ mathCall' =
          IF n = 0 \/ n = 1
          THEN [op |-> "integer_sqrt", n |-> n, x |-> n, y |-> n,
                result |-> FOk(n)]
          ELSE [op |-> "integer_sqrt", n |-> n, x |-> n \div 2,
                y |-> newton_step(mathArgs.overflow_checks, n, n \div 2),
                result |-> Running]
    /\ UNCHANGED mathArgs
    /\ UNCHANGED mathFrame

\* while y < x { x = y; y = (x + n / x) / 2; }
Sqrt_iterate ==
    /\ mathCall # NoMathCall
    /\ mathCall.op = "integer_sqrt" /\ mathCall.result = Running
    /\ mathCall.y # Panic /\ mathCall.y < mathCall.x
    /\ mathCall' = [mathCall EXCEPT
                        !.x = mathCall.y,
                        !.y = newton_step(mathArgs.overflow_checks, mathCall.n,
                                          mathCall.y)]
    /\ UNCHANGED mathArgs
    /\ UNCHANGED mathFrame

\* the loop is left: Ok(x), unless a step panicked
Sqrt_return ==
    /\ mathCall # NoMathCall
    /\ mathCall.op = "integer_sqrt" /\ mathCall.result = Running
    /\ mathCall.y = Panic \/ mathCall.y >= mathCall.x
    /\ mathCall' = [mathCall EXCEPT
                        !.result = IF mathCall.y = Panic THEN Panicked
                                   ELSE FOk(mathCall.x)]
    /\ UNCHANGED mathArgs
    /\ UNCHANGED mathFrame

\* the caller holds two u128 values, in a build with or without overflow checks
MathInit ==
    /\ InitTree /\ InitBook /\ InitRegistry
    /\ config.tick_size = 1
    /\ mathArgs \in [a : U128Samples, b : U128Samples, overflow_checks : BOOLEAN]
    /\ mathCall = NoMathCall

NextMath ==
    \/ Call_safe_add
    \/ Call_safe_subtract
    \/ Call_safe_multiply
    \/ Call_safe_divide
    \/ Call_calculate_mid_price
    \/ Call_host_calculate_spread
    \/ Call_multiply_quantities
    \/ Call_calculate_percentage_change
    \/ Call_calculate_compound_change
    \/ Call_from_basis_points
    \/ \E current_scale \in Scales, target_decimals \in 0 .. 1 :
          Call_financial_round(current_scale, target_decimals)
    \/ \E scale \in Scales : Call_precise_divide(scale)
    \/ Call_normalize_price_to_tick
    \/ \E values \in ValueLists : Call_calculate_mean(values)
    \/ \E values \in ValueLists, mean \in {mathArgs.a, mathArgs.b} :
          Call_calculate_variance(values, mean)
    \/ \E values \in ValueLists : Call_calculate_std_dev(values)
    \/ \E values \in ValueLists, percentile \in Percentiles :
          Call_calculate_percentile(values, percentile)
    \/ Caller_take_math_result

SpecMath == MathInit /\ [][NextMath]_vars

NextSqrt ==
    \/ \E n \in SqrtArguments : Sqrt_begin(n)
    \/ Sqrt_iterate
    \/ Sqrt_return
    \/ Caller_take_math_result

\* a thread inside integer_sqrt keeps running
SpecSqrt ==
    /\ MathInit /\ [][NextSqrt]_vars
    /\ WF_vars(Sqrt_iterate) /\ WF_vars(Sqrt_return)

(***************************************************************************)
(* Properties of the OrderBookBTreeMap, checked under SpecTree.            *)
(***************************************************************************)
TreeKeys == DOMAIN tree

\* C1: after any sequence of insert, set, delete and clear calls, every stored
\* level has at most one of bid, ask strictly positive.
C1_AtMostOneSidePositive ==
    \A k \in TreeKeys : ~(tree[k].bid > 0 /\ tree[k].ask > 0)

\* C2: no stored level has both bid and ask equal to zero (a write that leaves
\* both sides zero removes the level).
C2_NoLevelWithBothSidesZero ==
    \A k \in TreeKeys : tree[k].bid > 0 \/ tree[k].ask > 0

\* C3: after set(price, side, quantity) with side "bid" or "ask" and
\* quantity > 0, on a present or an absent price, get(price) returns a level
\* whose named side equals quantity and whose other side is 0.
C3_SetWritesSideAndClearsOther ==
    (treeCall.op = "set" /\ treeCall.side \in {"bid", "ask"} /\ treeCall.quantity > 0)
    => LET got == BTreeMap_get(treeCall.price)
       IN /\ got # None
          /\ got[1][treeCall.side] = treeCall.quantity
          /\ got[1][IF treeCall.side = "bid" THEN "ask" ELSE "bid"] = 0

\* C3 witness: set(price, "ask", q > 0) has just run on a price that held a bid.
C3_Witness ==
    /\ treeCall.op = "set" /\ treeCall.side = "ask" /\ treeCall.quantity > 0
    /\ treeCall.before # None /\ treeCall.before[1].bid > 0

\* C4: insert(price, incoming) on a price that already holds a level: with
\* incoming.ask > 0 the stored level ends with ask = incoming.ask and bid = 0
\* (also when incoming.bid > 0: the ask branch wins); with incoming.bid > 0
\* alone it ends with bid = incoming.bid and ask = 0.
C4_InsertMergeRule ==
    (treeCall.op = "insert" /\ treeCall.before # None)
    => LET stored == BTreeMap_get(treeCall.price)[1]
       IN /\ treeCall.ask > 0 => (stored.ask = treeCall.ask /\ stored.bid = 0)
          /\ (treeCall.bid > 0 /\ ~(treeCall.ask > 0))
                => (stored.bid = treeCall.bid /\ stored.ask = 0)

\* C4 witness: a level with both sides positive has just been inserted on a
\* price that held a bid.
C4_Witness ==
    /\ treeCall.op = "insert" /\ treeCall.bid > 0 /\ treeCall.ask > 0
    /\ treeCall.before # None /\ treeCall.before[1].bid > 0

\* C7: get_best_bid_ask() returns exactly the pair (get_best_bid(), get_best_ask()).
C7_BestBidAskIsThePairOfBests ==
    BTreeMap_get_best_bid_ask = <<BTreeMap_get_best_bid, BTreeMap_get_best_ask>>

(***************************************************************************)
(* Properties of the OrderBook, checked under SpecBook.                    *)
(***************************************************************************)
BidPrices == {k \in DOMAIN levels : levels[k].bid > 0}
AskPrices == {k \in DOMAIN levels : levels[k].ask > 0}

\* C5: get_best_bid() returns the maximum price among the stored levels whose
\* bid > 0, and 0 when no stored level has bid > 0.
C5_BestBidIsHighestBid ==
    OrderBook_get_best_bid = IF BidPrices = {} THEN 0 ELSE SetMax(BidPrices)

\* C5 witness: after a successful update_depth the book holds bids at two
\* prices and an ask above them.
C5_Witness ==
    /\ bookCall.op = "update_depth" /\ bookCall.result.ok
    /\ Cardinality(BidPrices) >= 2
    /\ \E a \in AskPrices : \A b \in BidPrices : a > b

NoDepth ==
    [total_levels |-> 0, bid_levels |-> 0, ask_levels |-> 0,
     total_bid_volume |-> 0, total_ask_volume |-> 0, imbalance |-> Whole(0)]

\* C8: on a book with no levels get_best_bid() = 0, get_best_ask() = +infinity,
\* get_spread() = 0, get_mid_price() = 0 and get_depth_metrics() is all zero;
\* get_spread() and get_mid_price() are also 0 when only one side is populated.
C8_EmptyAndOneSidedBook ==
    /\ DOMAIN levels = {} =>
          /\ OrderBook_get_best_bid = 0
          /\ OrderBook_get_best_ask = INFINITY
          /\ OrderBook_get_spread = 0
          /\ OrderBook_get_mid_price = Whole(0)
          /\ OrderBook_get_depth_metrics = NoDepth
    /\ (BidPrices = {} \/ AskPrices = {}) =>
          /\ OrderBook_get_spread = 0
          /\ OrderBook_get_mid_price = Whole(0)

\* C8 witness: clear() has just emptied a book that held levels.
C8_Witness ==
    bookCall.op = "clear" /\ ~bookCall.was_empty /\ DOMAIN levels = {}

\* C9: whenever get_best_bid() > 0 and get_best_ask() < +infinity,
\* get_spread() >= 0, also when the best bid is above the best ask.
C9_SpreadNonNegative ==
    (OrderBook_get_best_bid > 0 /\ ~OrderBook_get_best_ask.inf)
    => OrderBook_get_spread >= 0

RECURSIVE SideTotal(_, _, _)
SideTotal(lv, S, side) ==
    IF S = {} THEN 0
    ELSE LET k == CHOOSE x \in S : TRUE
         IN lv[k][side] + SideTotal(lv, S \ {k}, side)

\* the book of the band-sum example, in units of 0.01
BandExample ==
    (9999 :> BookLevel(9999, 2, 0, 0)) @@ (10000 :> BookLevel(10000, 3, 0, 0))
        @@ (10001 :> BookLevel(10001, 0, 4, 0)) @@ (10002 :> BookLevel(10002, 0, 1, 0))

\* C17: sum_band(center, band_ticks, tick_size) returns the sum of bid, the sum
\* of ask and the count over exactly the levels whose key lies in the closed
\* interval [center - band_ticks*tick_size, center + band_ticks*tick_size]; the
\* levels on either boundary are included.  With levels {99.99: bid 2,
\* 100.00: bid 3, 100.01: ask 4, 100.02: ask 1}, center 100.00 and one tick of
\* 0.01 the result is bid 5, ask 4, levels 3.
C17_SumBandIsClosedInterval ==
    /\ \A center \in 0..MaxRawPrice, band_ticks \in 0..MaxBand, tick_size \in 1..MaxTick :
          LET inBand == {k \in DOMAIN levels :
                            /\ center - band_ticks * tick_size <= k
                            /\ k <= center + band_ticks * tick_size}
          IN OrderBook_sum_band(center, band_ticks, tick_size) =
                [bid |-> SideTotal(levels, inBand, "bid"),
                 ask |-> SideTotal(levels, inBand, "ask"),
                 levels |-> Cardinality(inBand)]
    /\ sum_band(BandExample, 10000, 1, 1) = [bid |-> 5, ask |-> 4, levels |-> 3]

\* C17 witness: the book holds a level inside a band, a level on its upper
\* boundary and a level above it, and sum_band counts the first two.
C17_Witness ==
    /\ bookCall.op = "update_depth"
    /\ \E center \in 0..MaxRawPrice, tick_size \in 1..MaxTick :
          /\ center \in DOMAIN levels
          /\ center + tick_size \in DOMAIN levels
          /\ \E k \in DOMAIN levels : k > center + tick_size
          /\ OrderBook_sum_band(center, 1, tick_size).levels = 2

InOrder(update) ==
    [i \in 1..(Len(update.bids) + Len(update.asks)) |->
        IF i <= Len(update.bids)
        THEN [side |-> "bid", price |-> update.bids[i][1], qty |-> update.bids[i][2]]
        ELSE [side |-> "ask", price |-> update.asks[i - Len(update.bids)][1],
              qty |-> update.asks[i - Len(update.bids)][2]]]

\* the position of the first pair with a literal that does not parse, or one
\* past the end when every pair parses
FirstBad(pairs) ==
    IF \A i \in 1..Len(pairs) : pairs[i].price.parses /\ pairs[i].qty.parses
    THEN Len(pairs) + 1
    ELSE SetMin({i \in 1..Len(pairs) :
                    ~(pairs[i].price.parses /\ pairs[i].qty.parses)})

\* position i is applied by the call and no later applied pair writes its level
LastWriter(pairs, i) ==
    /\ i < FirstBad(pairs)
    /\ \A j \in (i + 1)..(FirstBad(pairs) - 1) :
          normalize_price(pairs[j].price.num) # normalize_price(pairs[i].price.num)

OtherSide(side) == IF side = "bid" THEN "ask" ELSE "bid"

\* C11: when update_depth applies a bid entry (p, q) with q # 0, the level
\* stored at the tick-normalized p ends with bid = q and ask = 0, whatever it
\* held before (the quantity replaces, it is not added); symmetric for asks.
C11_EntryReplacesLevel ==
    depthCall # None =>
        LET pairs == InOrder(depthCall[1].update)
        IN \A i \in 1..Len(pairs) :
              (LastWriter(pairs, i) /\ pairs[i].qty.num # 0) =>
                  LET got == OrderBook_get_level(pairs[i].price.num)
                  IN /\ got # None
                     /\ got[1][pairs[i].side] = pairs[i].qty.num
                     /\ got[1][OtherSide(pairs[i].side)] = 0

\* C11 witness: a one-entry update has just written a bid on a price that held
\* an ask.
C11_Witness ==
    /\ depthCall # None
    /\ Len(depthCall[1].update.bids) = 1 /\ depthCall[1].update.asks = <<>>
    /\ LET e == depthCall[1].update.bids[1]
       IN /\ e[1].parses /\ e[2].parses /\ e[2].num # 0
          /\ normalize_price(e[1].num) \in DOMAIN depthCall[1].levels
          /\ depthCall[1].levels[normalize_price(e[1].num)].ask # 0

\* C12: a zero-quantity entry at a price that holds a level removes that level
\* (size() decreases by one and get_level returns none); a zero-quantity entry
\* at a price with no level leaves levels unchanged.
C12_ZeroQuantityRemoves ==
    depthCall # None =>
        LET pairs == InOrder(depthCall[1].update)
            before == depthCall[1].levels
        IN /\ \A i \in 1..Len(pairs) :
                (LastWriter(pairs, i) /\ pairs[i].qty.num = 0) =>
                    OrderBook_get_level(pairs[i].price.num) = None
           /\ (Len(pairs) = 1 /\ LastWriter(pairs, 1) /\ pairs[1].qty.num = 0) =>
                LET key == normalize_price(pairs[1].price.num)
                IN IF key \in DOMAIN before
                   THEN /\ OrderBook_size = Cardinality(DOMAIN before) - 1
                        /\ DOMAIN levels = DOMAIN before \ {key}
                        /\ \A k \in DOMAIN levels : levels[k] = before[k]
                   ELSE levels = before

\* C35: the removal by a zero-quantity entry does not depend on the side of
\* the entry: a zero-quantity bid entry removes a level that holds only ask
\* quantity, and a zero-quantity ask entry removes a level that holds only
\* bid quantity; the quantity of the other side goes with the level.
C35_RemovalIgnoresSide ==
    depthCall # None =>
        LET pairs == InOrder(depthCall[1].update)
            before == depthCall[1].levels
        IN \A i \in 1..Len(pairs) :
              LET key == normalize_price(pairs[i].price.num)
                  side == pairs[i].side
              IN (/\ LastWriter(pairs, i) /\ pairs[i].qty.num = 0
                  /\ \A j \in 1..(i - 1) :
                        normalize_price(pairs[j].price.num) # key
                  /\ key \in DOMAIN before
                  /\ before[key][side] = 0
                  /\ before[key][OtherSide(side)] # 0)
                 => /\ key \notin DOMAIN levels
                    /\ OrderBook_get_level(pairs[i].price.num) = None
                    /\ Len(pairs) = 1 => levels = MapRemove(before, key)

\* C35 witness: a one-entry update with a zero-quantity bid has just removed a
\* level that held only ask quantity.
C35_Witness ==
    /\ depthCall # None /\ bookCall.result.ok
    /\ Len(depthCall[1].update.bids) = 1 /\ depthCall[1].update.asks = <<>>
    /\ LET e == depthCall[1].update.bids[1]
           key == normalize_price(e[1].num)
       IN /\ e[1].parses /\ e[2].parses /\ e[2].num = 0
          /\ key \in DOMAIN depthCall[1].levels
          /\ depthCall[1].levels[key].bid = 0
          /\ depthCall[1].levels[key].ask # 0
          /\ key \notin DOMAIN levels

\* the mirror case: a zero-quantity ask has removed a level that held only bid
\* quantity
C35_AskRemovesBid ==
    /\ depthCall # None /\ bookCall.result.ok
    /\ depthCall[1].update.bids = <<>> /\ Len(depthCall[1].update.asks) = 1
    /\ LET e == depthCall[1].update.asks[1]
           key == normalize_price(e[1].num)
       IN /\ e[1].parses /\ e[2].parses /\ e[2].num = 0
          /\ key \in DOMAIN depthCall[1].levels
          /\ depthCall[1].levels[key].ask = 0
          /\ depthCall[1].levels[key].bid # 0
          /\ key \notin DOMAIN levels

\* C36: config.max_levels is never enforced: a non-zero entry at a
\* tick-normalized price the book does not hold adds a level whatever the
\* number of levels held, so after non-zero entries at k distinct prices on an
\* empty book size() = k, also for k > config.max_levels.
C36_MaxLevelsNotEnforced ==
    /\ OrderBook_size = Cardinality(DOMAIN levels)
    /\ depthCall # None =>
          LET pairs == InOrder(depthCall[1].update)
              before == depthCall[1].levels
              written == {normalize_price(pairs[i].price.num) :
                            i \in 1..(FirstBad(pairs) - 1)}
          IN (\A i \in 1..(FirstBad(pairs) - 1) : pairs[i].qty.num # 0)
                => /\ DOMAIN levels = DOMAIN before \cup written
                   /\ before = EmptyMap => OrderBook_size = Cardinality(written)

\* C36 witness: the book holds more levels than config.max_levels after
\* entries at new prices were applied to a book that held max_levels of them.
C36_Witness ==
    /\ depthCall # None /\ bookCall.result.ok
    /\ Cardinality(DOMAIN depthCall[1].levels) = config.max_levels
    /\ OrderBook_size > config.max_levels
    /\ OrderBook_size = config.max_levels + Len(InOrder(depthCall[1].update))

\* C12 witness: a one-entry update with quantity zero has just removed a level
\* from a book that held two.
C12_Witness ==
    /\ depthCall # None
    /\ Len(InOrder(depthCall[1].update)) = 1
    /\ LET e == InOrder(depthCall[1].update)[1]
       IN /\ e.price.parses /\ e.qty.parses /\ e.qty.num = 0
          /\ normalize_price(e.price.num) \in DOMAIN depthCall[1].levels
    /\ Cardinality(DOMAIN depthCall[1].levels) = 2
    /\ OrderBook_size = 1

\* the levels a book holding `before` ends with once the first n pairs have
\* been written at time t: a price no pair names keeps its level, any other
\* price holds what the last pair naming it says
AfterPairs(before, pairs, n, t) ==
    LET key(i) == normalize_price(pairs[i].price.num)
        touched == {key(i) : i \in 1..n}
        last(k) == pairs[SetMax({i \in 1..n : key(i) = k})]
        kept == {k \in DOMAIN before \cup touched :
                    k \in touched => last(k).qty.num # 0}
    IN [k \in kept |->
          IF k \in touched
          THEN BookLevel(k, IF last(k).side = "bid" THEN last(k).qty.num ELSE 0,
                            IF last(k).side = "ask" THEN last(k).qty.num ELSE 0, t)
          ELSE before[k]]

\* C13: if the k-th pair of an update (bids in list order, then asks) has a
\* price or quantity that does not parse, update_depth returns an error that
\* names the offending token; the pairs before k have been applied and stay
\* applied; the k-th and later pairs are not applied.
C13_ParseErrorKeepsEarlierEntries ==
    (depthCall # None /\ FirstBad(InOrder(depthCall[1].update))
                            <= Len(InOrder(depthCall[1].update))) =>
        LET pairs == InOrder(depthCall[1].update)
            k == FirstBad(pairs)
        IN /\ ~bookCall.result.ok
           /\ bookCall.result.msg =
                 IF ~pairs[k].price.parses THEN "Invalid price" ELSE "Invalid quantity"
           /\ bookCall.result.token =
                 IF ~pairs[k].price.parses THEN pairs[k].price ELSE pairs[k].qty
           /\ levels = AfterPairs(depthCall[1].levels, pairs, k - 1, depthCall[1].now)

\* C13 witness: the first pair of a two-pair update has changed the book and
\* the second has failed to parse.
C13_Witness ==
    /\ depthCall # None
    /\ Len(InOrder(depthCall[1].update)) = 2
    /\ FirstBad(InOrder(depthCall[1].update)) = 2
    /\ levels # depthCall[1].levels
    /\ ~bookCall.result.ok

\* C14: within one update_depth call the entries take effect in the order all
\* bids in list order, then all asks in list order; when a normalized price
\* occurs more than once the last occurrence in that order alone determines
\* the stored level (a price in both bids and asks with non-zero quantities
\* ends as an ask-only level).
C14_LastOccurrenceWins ==
    (depthCall # None /\ bookCall.result.ok) =>
        LET update == depthCall[1].update
            pairs == InOrder(update)
        IN /\ levels = AfterPairs(depthCall[1].levels, pairs, Len(pairs),
                                  depthCall[1].now)
           /\ \A i \in 1..Len(update.bids), j \in 1..Len(update.asks) :
                 (/\ normalize_price(update.bids[i][1].num)
                        = normalize_price(update.asks[j][1].num)
                  /\ update.bids[i][2].num # 0
                  /\ update.asks[j][2].num # 0
                  /\ \A l \in (j + 1)..Len(update.asks) :
                        normalize_price(update.asks[l][1].num)
                          # normalize_price(update.asks[j][1].num))
                 => LET got == OrderBook_get_level(update.asks[j][1].num)[1]
                    IN got.ask = update.asks[j][2].num /\ got.bid = 0

\* C14 witness: a successful update has named one normalized price in its
\* bids and in its asks, by two different price literals, both with a
\* quantity, on a book that held nothing there.
C14_Witness ==
    /\ depthCall # None /\ bookCall.result.ok
    /\ Len(depthCall[1].update.bids) = 1 /\ Len(depthCall[1].update.asks) = 1
    /\ LET b == depthCall[1].update.bids[1]
           a == depthCall[1].update.asks[1]
       IN /\ b[1].num # a[1].num
          /\ normalize_price(b[1].num) = normalize_price(a[1].num)
          /\ b[2].num # 0 /\ a[2].num # 0
          /\ normalize_price(a[1].num) \notin DOMAIN depthCall[1].levels
          /\ levels[normalize_price(a[1].num)].ask # 0

\* C33: no operation of the OrderBook API opens the circuit or counts an
\* error: in every state reachable from new(), including after update_depth
\* calls that failed to parse, circuit_open = false, circuit_open_until is
\* unset and error_count = 0.
C33_ApiNeverOpensCircuit ==
    /\ circuit_open = FALSE
    /\ circuit_open_until = None
    /\ error_count = 0
    /\ OrderBook_get_health.circuit_breaker_open = FALSE
    /\ OrderBook_get_health.error_rate = 0

\* C33 witness: an update_depth call on a book that holds a level has failed
\* on a literal that does not parse.
C33_Witness ==
    /\ bookCall.op = "update_depth"
    /\ ~bookCall.result.ok
    /\ ~bookCall.was_empty
    /\ error_count = 0 /\ ~circuit_open

\* a thread inside a host function can take its next step
CanStep(thread) ==
    \/ ENABLED Registry_lock(thread)
    \/ ENABLED Host_create_tree(thread)
    \/ ENABLED Host_get_mut(thread)
    \/ ENABLED Tree_lock(thread)
    \/ ENABLED Tree_write(thread)
    \/ ENABLED Host_return(thread)

HoldsTree(thread) == \E id \in HostIds : tree_lock[id] = Some(thread)

\* C37: every host operation takes the registry mutex first and the mutex of
\* a tree second, never asks for the registry mutex while it holds the mutex
\* of a tree, and has released both when it returns, on the error paths too;
\* so concurrent host calls never deadlock: whenever calls are in progress,
\* one of them can take a step.
C37_LockOrderNoDeadlock ==
    /\ \A thread \in HostThreads :
          /\ HoldsTree(thread) => registry_lock = Some(thread)
          /\ pc[thread].at \in {"tree_lock", "tree_held"}
                => registry_lock = Some(thread)
          /\ pc[thread].at = "tree_lock" => tree_lock[pc[thread].id] = None
          /\ pc[thread].at = "registry_lock" => ~HoldsTree(thread)
          /\ pc[thread].at \in {"idle", "registry_lock"}
                => registry_lock # Some(thread) /\ ~HoldsTree(thread)
    /\ (\E thread \in HostThreads : pc[thread].at # "idle")
          => \E thread \in HostThreads : CanStep(thread)

\* C37 witness: one thread holds the registry and the mutex of a tree while
\* another, whose call will end in "Tree not found", waits for the registry.
C37_Witness ==
    \E t, u \in HostThreads :
        /\ pc[t].at = "tree_held" /\ HoldsTree(t) /\ registry_lock = Some(t)
        /\ pc[u].at = "registry_lock" /\ ~CanStep(u)
        /\ pc[u].op # "create_tree" /\ pc[u].id \notin DOMAIN registry

\* thread is at the return of a create_tree call
Created(thread) == pc[thread].at = "return" /\ pc[thread].op = "create_tree"

\* C38: a create call with an id that is already registered replaces the
\* registered object by a new empty one and returns without error: when the
\* call returns, size(id) = 0 and no level the old object held is found
\* under the id, and the objects registered under the other ids are as they
\* were.
C38_CreateReplacesRegistered ==
    /\ [](\A thread \in HostThreads :
            Created(thread) =>
                /\ pc[thread].id \in DOMAIN registry
                /\ Cardinality(DOMAIN registry[pc[thread].id]) = 0
                /\ pc[thread].replaced # None =>
                      \A price \in DOMAIN pc[thread].replaced[1] :
                          price \notin DOMAIN registry[pc[thread].id])
    /\ [][\A thread \in HostThreads :
            (~Created(thread) /\ Created(thread)') =>
                /\ DOMAIN registry' = DOMAIN registry \cup {pc[thread].id}
                /\ \A id \in DOMAIN registry \ {pc[thread].id} :
                      registry'[id] = registry[id]]_vars

\* C38 witness: create_tree is returning for an id whose tree held a level,
\* while the tree under the other id holds one.
C38_Witness ==
    \E thread \in HostThreads :
        /\ Created(thread)
        /\ pc[thread].replaced # None
        /\ DOMAIN pc[thread].replaced[1] # {}
        /\ registry[pc[thread].id] = EmptyMap
        /\ \E id \in DOMAIN registry : DOMAIN registry[id] # {}

(***************************************************************************)
\* the call found the circuit open and its deadline still to come
FoundCircuitOpen(call) ==
    /\ call.circuit_open
    /\ call.circuit_open_until # None
    /\ call.now < call.circuit_open_until[1]

\* C15: update_depth changes last_update (to the time of the call) only when
\* it returns Ok after applying every entry; a call that returns an error
\* because an entry failed to parse leaves last_update unchanged even though
\* the earlier entries of that same call were applied.
C15_LastUpdateOnlyOnSuccess ==
    depthCall # None =>
        LET call == depthCall[1]
            pairs == InOrder(call.update)
        IN /\ last_update # call.last_update =>
                /\ bookCall.result.ok
                /\ last_update = call.now
                /\ levels = AfterPairs(call.levels, pairs, Len(pairs), call.now)
           /\ (bookCall.result.ok /\ ~FoundCircuitOpen(call)) =>
                last_update = call.now
           /\ ~bookCall.result.ok =>
                /\ last_update = call.last_update
                /\ levels = AfterPairs(call.levels, pairs, FirstBad(pairs) - 1,
                                       call.now)

\* C15 witness: a call made after the last successful one has written a level
\* and then failed on its second entry.
C15_Witness ==
    /\ depthCall # None
    /\ ~bookCall.result.ok
    /\ depthCall[1].now > depthCall[1].last_update
    /\ levels # depthCall[1].levels
    /\ last_update = depthCall[1].last_update

\* C16: if circuit_open is true and the current time is before
\* circuit_open_until, update_depth returns success and leaves levels,
\* last_update, circuit_open, circuit_open_until and error_count all unchanged.
C16_OpenCircuitDropsUpdate ==
    (depthCall # None /\ FoundCircuitOpen(depthCall[1])) =>
        /\ bookCall.result.ok
        /\ levels = depthCall[1].levels
        /\ last_update = depthCall[1].last_update
        /\ circuit_open = depthCall[1].circuit_open
        /\ circuit_open_until = depthCall[1].circuit_open_until
        /\ error_count = depthCall[1].error_count

\* C16 witness: with the circuit open, a call made after the last successful
\* one has offered a bid on a price the book does not hold.
C16_Witness ==
    /\ depthCall # None /\ FoundCircuitOpen(depthCall[1])
    /\ depthCall[1].now > depthCall[1].last_update
    /\ Len(depthCall[1].update.bids) >= 1
    /\ depthCall[1].update.bids[1][1].parses
    /\ normalize_price(depthCall[1].update.bids[1][1].num)
          \notin DOMAIN depthCall[1].levels

\* the call found the circuit open and its deadline reached or passed
FoundCircuitExpired(call) ==
    /\ call.circuit_open
    /\ call.circuit_open_until # None
    /\ call.now >= call.circuit_open_until[1]

\* C31: if circuit_open is true and update_depth is called at a time not
\* before circuit_open_until, the call sets circuit_open = false and
\* circuit_open_until = None and then applies the entries of the update and
\* sets last_update exactly as a call on a closed circuit would.
C31_ExpiredCircuitClosesAndApplies ==
    (depthCall # None /\ FoundCircuitExpired(depthCall[1])) =>
        LET call == depthCall[1]
            closed == apply_update(call.levels, call.update, call.now)
        IN /\ circuit_open = FALSE
           /\ circuit_open_until = None
           /\ levels = closed.levels
           /\ bookCall.result = closed.result
           /\ last_update = IF closed.result.ok THEN call.now
                             ELSE call.last_update
           /\ error_count = call.error_count

\* C31 witness: a call made at the deadline of an open circuit has written a
\* level the book did not hold and has stamped last_update.
C31_Witness ==
    /\ depthCall # None /\ FoundCircuitExpired(depthCall[1])
    /\ depthCall[1].now = depthCall[1].circuit_open_until[1]
    /\ bookCall.result.ok
    /\ levels # depthCall[1].levels
    /\ depthCall[1].now > depthCall[1].last_update
    /\ last_update = depthCall[1].now

\* C34: while circuit_open is true, only an update_depth call made at or
\* after circuit_open_until clears it (and unsets the deadline); get_health,
\* clear() and the passing of time leave circuit_open and circuit_open_until
\* as they are, so get_health keeps reporting circuit_breaker_open = true and
\* the status "unhealthy", also after the deadline, until that call.  The
\* only other change of the two fields is the supervisor opening the
\* circuit anew until a later deadline.
C34_OnlyUpdateDepthClosesCircuit ==
    /\ [](circuit_open =>
            /\ OrderBook_get_health.circuit_breaker_open
            /\ OrderBook_get_health.status = "unhealthy")
    /\ [][circuit_open =>
            \/ UNCHANGED <<circuit_open, circuit_open_until>>
            \/ /\ circuit_open_until # None /\ now >= circuit_open_until[1]
               /\ bookCall'.op = "update_depth"
               /\ ~circuit_open' /\ circuit_open_until' = None
            \/ /\ circuit_open' /\ circuit_open_until' # None
               /\ circuit_open_until'[1] > now
               /\ UNCHANGED <<levels, last_update, bookCall>>]_vars

\* C34 witness: after the deadline of an open circuit, on a book whose last
\* update is recent, clear() and then get_health were called: the circuit is
\* still open and the report says so.
C34_Witness ==
    /\ circuit_open /\ circuit_open_until # None
    /\ now > circuit_open_until[1]
    /\ now - last_update <= DegradedAgeMs
    /\ bookCall.op = "get_health" /\ bookCall.was_empty
    /\ bookCall.result.circuit_breaker_open
    /\ bookCall.result.status = "unhealthy"

(***************************************************************************)
(* Properties of get_health, checked under SpecHealth.                     *)
(***************************************************************************)
StaleLevels ==
    {k \in DOMAIN levels : now - levels[k].timestamp > config.stale_threshold_ms}

\* C19: get_health reports "unhealthy" iff circuit_open is set or the age of
\* last_update exceeds 10000 ms; otherwise "degraded" iff error_count >
\* max_error_rate/2 or the age exceeds 5000 ms or the number of stale levels
\* exceeds size/10; otherwise "healthy"; and initialized = (size > 0).
C19_HealthStatusLadder ==
    LET health == OrderBook_get_health
        age == now - last_update
        unhealthy == circuit_open \/ age > 10000
        degraded == \/ 2 * error_count > config.max_error_rate
                    \/ age > 5000
                    \/ 10 * Cardinality(StaleLevels) > OrderBook_size
    IN /\ health.status = "unhealthy" <=> unhealthy
       /\ ~unhealthy => (health.status = "degraded" <=> degraded)
       /\ (~unhealthy /\ ~degraded) => health.status = "healthy"
       /\ health.status \in {"unhealthy", "degraded", "healthy"}
       /\ health.initialized <=> OrderBook_size > 0

\* C19 witness: the last update is recent, no error is counted and the circuit
\* is closed, and one of the two levels of the book is stale: the status is
\* "degraded".
C19_Witness ==
    /\ bookCall.op = "update_depth" /\ bookCall.result.ok
    /\ ~circuit_open /\ error_count = 0
    /\ now - last_update <= 5000 /\ now > last_update
    /\ OrderBook_size = 2 /\ Cardinality(StaleLevels) = 1
    /\ OrderBook_get_health.status = "degraded"

(***************************************************************************)
(* Properties of the host registry, checked under SpecRegistry.            *)
(***************************************************************************)
\* the thread is inside the call on the tree: about to take its mutex, or
\* holding it
TouchesTree(thread) == pc[thread].at \in {"tree_lock", "tree_held"}

\* C20: in the host registries a book-level operation releases the registry
\* mutex before it reads or mutates the book, so an operation in progress on
\* one book never blocks a concurrent operation on a different book or a
\* registry insert or lookup.
C20_RegistryFreeWhileBookTouched ==
    /\ \A thread \in HostThreads :
          TouchesTree(thread) => registry_lock # Some(thread)
    /\ \A working \in HostThreads, other \in HostThreads :
          (/\ TouchesTree(working)
           /\ pc[other].at = "registry_lock"
           /\ pc[other].id # pc[working].id)
          => registry_lock = None

(***************************************************************************)
(* Properties of the host module of the book, checked under SpecHostBook.  *)
(***************************************************************************)
\* the thread is inside update_depth: entered, and not yet at its return
InUpdateDepth(thread) == pc[thread].at = "entries"

\* the thread is looking at the book, or has just looked at it
Reads(thread) ==
    /\ pc[thread].op = "read"
    /\ pc[thread].at \in {"registry_held", "return"}

Called(op) == mathCall.op = op
AbsDiff(x, y) == IF x >= y THEN x - y ELSE y - x
Smaller(x, y) == IF x <= y THEN x ELSE y
Larger(x, y) == IF x >= y THEN x ELSE y

\* C22: for every price and every tick > 0, odd ticks included,
\* normalize_price_to_tick returns a multiple of the tick that is nearest to
\* the price (at most half a tick away): up when the remainder is above half
\* a tick, down when below, and to the even quotient only on an exact tie.
C22_NearestMultipleOfTick ==
    (Called("normalize_price_to_tick") /\ mathArgs.b > 0) =>
        LET price == mathArgs.a
            tick == mathArgs.b
            remainder == price % tick
            result == mathCall.result
        IN /\ result.tag = "Ok"
           /\ result.value % tick = 0
           /\ 2 * AbsDiff(result.value, price) <= tick
           /\ 2 * remainder > tick => result.value = price - remainder + tick
           /\ 2 * remainder < tick => result.value = price - remainder
           /\ 2 * remainder = tick => (result.value \div tick) % 2 = 0

\* C23: normalize_price_to_tick is idempotent: whenever normalising x to a
\* tick t > 0 succeeds with y, normalising y to t returns y; a zero tick
\* yields DivisionByZero.
C23_NormalizeIsIdempotent ==
    Called("normalize_price_to_tick") =>
        /\ mathArgs.b = 0 => mathCall.result = FErr("DivisionByZero")
        /\ (mathArgs.b > 0 /\ mathCall.result.tag = "Ok") =>
              zones_normalize_price_to_tick(mathArgs.overflow_checks,
                  mathCall.result.value, mathArgs.b) = mathCall.result

\* C24: for all u128 bid and ask, in either order, calculate_mid_price
\* evaluates without intermediate overflow or underflow and returns a value
\* between the two inputs, the lower one plus half the spread rounded down.
C24_MidPriceBetweenInputs ==
    Called("calculate_mid_price") =>
        LET low == Smaller(mathArgs.a, mathArgs.b)
            high == Larger(mathArgs.a, mathArgs.b)
        IN /\ mathCall.result.tag = "u128"
           /\ mathCall.result.value \in low .. high
           /\ mathArgs.a <= mathArgs.b =>
                 mathCall.result.value = low + (high - low) \div 2

\* C39: the host function calculate_spread, whose first argument is the bid
\* and whose second is the ask, returns ask - bid saturated at 0, the value of
\* the kernel's calculate_spread(ask, bid).
C39_HostSpreadIsAskMinusBid ==
    Called("host_calculate_spread") =>
        LET bid == mathArgs.a
            ask == mathArgs.b
        IN /\ mathCall.result = arithmetic_calculate_spread(ask, bid)
           /\ mathCall.result.value = IF ask >= bid THEN ask - bid ELSE 0

\* C25: safe_add, safe_subtract and safe_multiply return the exact result
\* exactly when it lies in 0 .. 2^bits - 1 and Overflow otherwise, never a
\* wrapped value; safe_divide returns DivisionByZero exactly when the divisor
\* is 0 and the floor of the quotient otherwise; safe_add is commutative, and
\* associative where no sum overflows.
C25_SafeOperationsAreExact ==
    LET a == mathArgs.a
        b == mathArgs.b
        result == mathCall.result
    IN /\ Called("safe_add") =>
            /\ result.tag = "Ok" <=> a + b <= U128_MAX
            /\ result.tag = "Ok" => result.value = a + b
            /\ result.tag # "Ok" => result = FErr("Overflow")
            /\ safe_add(b, a) = result
            /\ \A c \in U128Samples :
                  (result.tag = "Ok" /\ safe_add(b, c).tag = "Ok") =>
                      safe_add(result.value, c) = safe_add(a, safe_add(b, c).value)
       /\ Called("safe_subtract") =>
            /\ result.tag = "Ok" <=> a >= b
            /\ result.tag = "Ok" => result.value + b = a
            /\ result.tag # "Ok" => result = FErr("Overflow")
       /\ Called("safe_multiply") =>
            /\ result.tag = "Ok" <=> (a = 0 \/ b <= U128_MAX \div a)
            /\ (result.tag = "Ok" /\ a = 0) => result.value = 0
            /\ (result.tag = "Ok" /\ a > 0) =>
                  result.value % a = 0 /\ result.value \div a = b
            /\ result.tag # "Ok" => result = FErr("Overflow")
       /\ Called("safe_divide") =>
            /\ b = 0 <=> result = FErr("DivisionByZero")
            /\ b > 0 =>
                  /\ result.tag = "Ok"
                  /\ result.value * b <= a
                  /\ a - result.value * b < b

\* C25 witness: the largest value plus one has been refused as Overflow.
C25_Witness ==
    /\ Called("safe_add")
    /\ mathArgs.a = U128_MAX /\ mathArgs.b = 1
    /\ mathCall.result = FErr("Overflow")

\* C26: calculate_percentage_change(old, new) returns DivisionByZero when old
\* is 0 and otherwise exactly |new - old| * 10000 / old in integer division,
\* for new >= old and for new < old alike.
C26_PercentageChangeIsMagnitude ==
    Called("calculate_percentage_change") =>
        IF mathArgs.a = 0
        THEN mathCall.result = FErr("DivisionByZero")
        ELSE mathCall.result =
                FOk((AbsDiff(mathArgs.b, mathArgs.a) * 10000) \div mathArgs.a)

\* C30: multiply_quantities returns the product at the fixed-point scale of
\* its inputs: ten units times five units is fifty units.
C30_ProductKeepsTheScale ==
    (/\ Called("multiply_quantities")
     /\ mathArgs.a = 10 * QuantityUnit
     /\ mathArgs.b = 5 * QuantityUnit) =>
        mathCall.result = FOk(50 * QuantityUnit)

\* the sum of the values as a number, whatever the width of u128
RECURSIVE ExactSum(_)
ExactSum(values) ==
    IF values = <<>> THEN 0 ELSE Head(values) + ExactSum(Tail(values))

\* the operations of the kernel and of the statistics that C28 names
UncheckedOps ==
    {"calculate_mean", "calculate_variance", "calculate_std_dev",
     "precise_divide", "calculate_percentage_change",
     "calculate_compound_change", "from_basis_points",
     "normalize_price_to_tick", "financial_round"}

\* C28: no operation of the kernel or of the statistics panics or returns a
\* wrapped value, for any u128 inputs: where an intermediate result does not
\* fit, the call returns a typed error, and a value it returns is the value
\* of its formula.
C28_NoPanicNoWrappedValue ==
    mathCall.op \in UncheckedOps =>
        /\ mathCall.result.tag # "panic"
        /\ Called("from_basis_points") =>
              mathCall.result.value = mathArgs.a * 100
        /\ (Called("calculate_mean") /\ mathCall.result.tag = "Ok") =>
              mathCall.result.value
                  = ExactSum(mathCall.values) \div Len(mathCall.values)
        /\ (Called("calculate_compound_change") /\ mathCall.result.tag = "Ok") =>
              mathCall.result.value
                  = Larger((mathArgs.b * 10000) \div mathArgs.a, 10000) - 10000
        /\ (Called("precise_divide") /\ mathCall.result.tag = "Ok"
                /\ mathCall.scale <= 4) =>
              mathCall.result.value
                  = (mathArgs.a * 10 ^ mathCall.scale) \div mathArgs.b

\* C29: for a slice of n >= 1 values and 0 <= p <= 100, calculate_percentile
\* returns the minimum for p = 0, the maximum for p = 100, and otherwise
\* sorted[lo] + floor((sorted[lo+1] - sorted[lo]) * (pos - lo)) with
\* pos = p * (n - 1) / 100 and lo = floor(pos); the result lies between the
\* minimum and the maximum.
C29_PercentileInterpolates ==
    (/\ Called("calculate_percentile")
     /\ mathCall.values # <<>>
     /\ mathCall.percentile <= 100) =>
        LET sorted == sort_unstable(mathCall.values)
            n == Len(sorted)
            scaled_pos == mathCall.percentile * (n - 1)
            lo == scaled_pos \div 100
            result == mathCall.result
        IN /\ result.tag = "Ok"
           /\ result.value \in sorted[1] .. sorted[n]
           /\ mathCall.percentile = 0 => result.value = sorted[1]
           /\ mathCall.percentile = 100 => result.value = sorted[n]
           /\ mathCall.percentile \in 1 .. 99 =>
                 result.value =
                    IF n = 1 THEN sorted[1]
                    ELSE sorted[lo + 1]
                         + ((sorted[lo + 2] - sorted[lo + 1]) * (scaled_pos % 100))
                               \div 100

(***************************************************************************)
(* Properties of integer_sqrt, checked under SpecSqrt.                     *)
(***************************************************************************)
InSqrt == mathCall # NoMathCall /\ mathCall.op = "integer_sqrt"

\* C32: for every unsigned n of the width, the Newton iteration used by
\* calculate_std_dev (start at n/2, stop when the next approximation is not
\* smaller) terminates and returns the floor of the square root: the result
\* r satisfies r*r <= n < (r+1)*(r+1).
C32_NewtonReturnsFloorRoot ==
    /\ [](InSqrt /\ mathCall.result # Running =>
            LET r == mathCall.result.value
            IN /\ mathCall.result.tag = "Ok"
               /\ r = 0 \/ r <= mathCall.n \div r
               /\ mathCall.n \div (r + 1) < r + 1)
    /\ ((InSqrt /\ mathCall.result = Running)
            ~> (InSqrt /\ mathCall.result # Running))

\* C32 witness: the root of the largest value has been returned after the
\* loop ran more than once.
C32_Witness ==
    /\ InSqrt /\ mathCall.result.tag = "Ok"
    /\ mathCall.n = U128_MAX
    /\ mathCall.x < newton_step(mathArgs.overflow_checks, mathCall.n,
                                mathCall.n \div 2)

(***************************************************************************)
(* Properties of the conversions, checked under SpecConversions.           *)
(***************************************************************************)
\* C27: percentage_to_int rejects the same inputs as price_to_int and
\* quantity_to_int: NaN, an infinity or a negative value yields InvalidValue,
\* and no negative input is converted.
C27_PercentageRejectsLikePrice ==
    Called("percentage_to_int") =>
        /\ mathCall.result = FErr("InvalidValue")
              <=> price_to_int(mathArgs.x) = FErr("InvalidValue")
        /\ mathCall.result = FErr("InvalidValue")
              <=> quantity_to_int(mathArgs.x) = FErr("InvalidValue")
        /\ (~is_finite(mathArgs.x) \/ is_negative(mathArgs.x))
              => mathCall.result = FErr("InvalidValue")

====
